---- MODULE Spec2Model ----
(***************************************************************************)
(* The SSE connection registry (class SSEManager of src/lib/sse/manager,   *)
(* found in src/src/lib/sse/index.ts from line 296 on): the client map,    *)
(* the user -> connections index, delivery, the heartbeat reaper and       *)
(* destroy.  JavaScript runs every handler to completion on one thread,    *)
(* so each public method and each timer callback is one atomic action.     *)
(*                                                                         *)
(* Environment.  The registry is driven within its documented input        *)
(* domain: a connection id is unique among the live connections (addClient *)
(* is offered an id that is not registered), user ids are non-empty        *)
(* strings, event payloads are JSON-serializable.  Sinks are stream        *)
(* controllers created by the transport; any of them can stop accepting    *)
(* writes at any time without the registry being told.  The registry       *)
(* reaches a controller only through the client record that holds it, so   *)
(* the controller's state is kept in that record.                          *)
(***************************************************************************)
EXTENDS Integers, Sequences, FiniteSets, TLC

----------------------------------------------------------------------------
(* Sizes of the model. *)

\* the clock stops advancing here
MaxTime == 3

(* The configuration (constructor defaults 30000 / 60000 / 1000), scaled:  *)
(* one time unit is one heartbeat interval, the timeout is two of them as  *)
(* in the defaults, and the admission cap is small.  The cap is read from  *)
(* the configuration the constructor stored.                               *)
HeartbeatInterval == 1
ConnectionTimeout == 2
MaxConnections == 2

ClientIds == {"c1", "c2", "c3"}
UserIds == {"U1", "U2"}
\* userId?: string  -- the absent value
NoUser == "undefined"
\* clientId of a call that takes none
NoId == "none"
\* a value JSON.stringify turns into undefined instead of a string
Undefined == "undefined"

\* the return value of a method declared void
Void == "void"

VARIABLES
    clients,          \* Map<string, SSEClient>: id -> record
    userConnections,  \* Map<string, Set<string>>: userId -> set of ids
    maxConnections,   \* this.config.maxConnections, fixed by the constructor
    hook,             \* the state of one mounted useSSE hook and its EventSource
    streams,          \* the streams the route has created, by connection id
    heartbeatTimer,   \* TRUE while the interval timer is armed
    nextTick,         \* the time the interval timer is due next
    now,              \* Date.now()
    last              \* the last step: the call, its result and its sink traffic

vars ==
    <<clients, userConnections, maxConnections, hook, streams, heartbeatTimer,
      nextTick, now, last>>

----------------------------------------------------------------------------
(* Values *)

\* `if (userId)`: user ids are non-empty strings, so only the absent one is falsy
Truthy(userId) == userId # NoUser

\* sessionId as the route derives it: `session_${id}` or undefined
SessionOf(userId) == IF Truthy(userId) THEN <<"session", userId>> ELSE NoUser

\* SSEEvent: type and the kind of payload it carries
Event(type, data) == [type |-> type, data |-> data]
ConnectionEvent == Event("connection", "object")
HeartbeatEvent == Event("heartbeat", "object")
\* the events callers send inside the documented domain
Events == {Event("notification", "object")}

\* formatSSEMessage throws when JSON.stringify yields undefined (.split of undefined)
formatThrows(event) == event.data = Undefined

Remove(f, k) == [x \in DOMAIN f \ {k} |-> f[x]]
Put(f, k, v) == [x \in DOMAIN f \cup {k} |-> IF x = k THEN v ELSE f[x]]

\* the registry while one handler runs; writes and closes log the calls the
\* handler made on controllers, in order: <<clientId, event type, accepted>>
\* and <<clientId, closed>>; raised tells that an error left the handler
Machine(c, u) ==
    [clients |-> c, userConnections |-> u, writes |-> <<>>, closes |-> <<>>,
     raised |-> FALSE]

----------------------------------------------------------------------------
(* Stream controllers *)

\* a controller is the state of its stream: "open" (readable) or "errored"
ControllerStates == {"open", "errored"}

\* controller.enqueue succeeds on a readable stream and throws otherwise
enqueueOk(controller) == controller = "open"

\* controller.close succeeds on a readable stream and throws otherwise
closeOk(controller) == controller = "open"

----------------------------------------------------------------------------
(* SSEManager methods, as operators on the machine *)

\* faulty variant: the id is never taken out of the user's set
unindexForgets(index, userId, clientId) == index

\* faulty variant: the emptied entry is left in the map
unindexLeavesEmpty(index, userId, clientId) ==
    IF userId \in DOMAIN index
    THEN [index EXCEPT ![userId] = @ \ {clientId}]
    ELSE index

\* faulty variant: the user's entry is deleted with connections left in it
unindexDropsUser(index, userId, clientId) ==
    IF userId \in DOMAIN index
    THEN Remove(index, userId)
    ELSE index

\* the index without clientId under userId; an emptied entry is deleted
unindex(index, userId, clientId) ==
    IF userId \in DOMAIN index
    THEN LET userClients == index[userId] \ {clientId}
         IN IF userClients = {}
            THEN Remove(index, userId)
            ELSE [index EXCEPT ![userId] = userClients]
    ELSE index

\* faulty variant: `this.clients.delete(clientId)` is missing
removeClientKeepsRecord(m, clientId) ==
    IF clientId \notin DOMAIN m.clients
    THEN m
    ELSE LET client == m.clients[clientId]
         IN [m EXCEPT
               !.userConnections =
                   IF Truthy(client.userId)
                   THEN unindex(@, client.userId, clientId)
                   ELSE @,
               !.closes = Append(@, <<clientId, closeOk(client.controller)>>)]

\* faulty variant: close() is not wrapped in try/catch, so a failing close
\* leaves the method before the record is deleted
removeClientCloseThrows(m, clientId) ==
    IF clientId \notin DOMAIN m.clients
    THEN m
    ELSE LET client == m.clients[clientId]
             ok == closeOk(client.controller)
         IN [m EXCEPT
               !.userConnections =
                   IF Truthy(client.userId)
                   THEN unindex(@, client.userId, clientId)
                   ELSE @,
               !.closes = Append(@, <<clientId, ok>>),
               !.clients = IF ok THEN Remove(@, clientId) ELSE @,
               !.raised = ~ok]

\* faulty variant: close() is called a second time after the first
removeClientClosesTwice(m, clientId) ==
    IF clientId \notin DOMAIN m.clients
    THEN m
    ELSE LET client == m.clients[clientId]
         IN [m EXCEPT
               !.userConnections =
                   IF Truthy(client.userId)
                   THEN unindex(@, client.userId, clientId)
                   ELSE @,
               !.closes = @ \o <<<<clientId, closeOk(client.controller)>>,
                                 <<clientId, FALSE>>>>,
               !.clients = Remove(@, clientId)]

removeClient(m, clientId) ==
    IF clientId \notin DOMAIN m.clients
    THEN m
    ELSE LET client == m.clients[clientId]
         IN [m EXCEPT
               !.userConnections =
                   IF Truthy(client.userId)
                   THEN unindex(@, client.userId, clientId)
                   ELSE @,
               !.closes = Append(@, <<clientId, closeOk(client.controller)>>),
               !.clients = Remove(@, clientId)]

\* faulty variant: a failed write is reported but the connection is kept
sendToClientNoEvict(m, clientId, event) ==
    IF clientId \notin DOMAIN m.clients
    THEN [m |-> m, ret |-> FALSE]
    ELSE LET ok == ~formatThrows(event) /\ enqueueOk(m.clients[clientId].controller)
         IN [m |-> [m EXCEPT
                      !.writes = Append(@, <<clientId, event.type, ok>>)],
             ret |-> ok]

\* faulty variant: an unknown id is reported as delivered
sendToClientUnknownSucceeds(m, clientId, event) ==
    IF clientId \notin DOMAIN m.clients
    THEN [m |-> m, ret |-> TRUE]
    ELSE LET client == m.clients[clientId]
         IN IF formatThrows(event)
            THEN [m |-> removeClient(m, clientId), ret |-> FALSE]
            ELSE IF enqueueOk(client.controller)
            THEN [m |-> [m EXCEPT
                     !.writes = Append(@, <<clientId, event.type, TRUE>>)],
                  ret |-> TRUE]
            ELSE [m |-> removeClient(
                     [m EXCEPT
                        !.writes = Append(@, <<clientId, event.type, FALSE>>)],
                     clientId),
                  ret |-> FALSE]

\* faulty variant: after a refused write the connection is removed and the
\* write is tried on it once more
sendToClientRetries(m, clientId, event) ==
    IF clientId \notin DOMAIN m.clients
    THEN [m |-> m, ret |-> FALSE]
    ELSE LET client == m.clients[clientId]
         IN IF formatThrows(event)
            THEN [m |-> removeClient(m, clientId), ret |-> FALSE]
            ELSE IF enqueueOk(client.controller)
            THEN [m |-> [m EXCEPT
                     !.writes = Append(@, <<clientId, event.type, TRUE>>)],
                  ret |-> TRUE]
            ELSE [m |-> [removeClient(
                           [m EXCEPT
                              !.writes = Append(@, <<clientId, event.type, FALSE>>)],
                           clientId)
                         EXCEPT
                           !.writes = Append(@, <<clientId, event.type, FALSE>>)],
                  ret |-> FALSE]

\* returns the machine after the call and the boolean result
sendToClient(m, clientId, event) ==
    IF clientId \notin DOMAIN m.clients
    THEN [m |-> m, ret |-> FALSE]
    ELSE LET client == m.clients[clientId]
         IN IF formatThrows(event)
            THEN [m |-> removeClient(m, clientId), ret |-> FALSE]
            ELSE IF enqueueOk(client.controller)
            THEN [m |-> [m EXCEPT
                     !.writes = Append(@, <<clientId, event.type, TRUE>>)],
                  ret |-> TRUE]
            ELSE [m |-> removeClient(
                     [m EXCEPT
                        !.writes = Append(@, <<clientId, event.type, FALSE>>)],
                     clientId),
                  ret |-> FALSE]

\* faulty variant: the loop runs over every connection, not over the user's
RECURSIVE sendToUserLoopAll(_, _, _, _, _)
sendToUserLoopAll(m, userId, event, visited, successCount) ==
    LET rest == DOMAIN m.clients \ visited
    IN IF rest = {}
       THEN [m |-> m, ret |-> successCount]
       ELSE LET clientId == CHOOSE c \in rest : TRUE
                r == sendToClient(m, clientId, event)
            IN sendToUserLoopAll(r.m, userId, event, visited \cup {clientId},
                                 IF r.ret THEN successCount + 1 ELSE successCount)

\* `for (const clientId of userClients)`: the Set is iterated live, an id
\* deleted before its turn is not visited, no id is visited twice
RECURSIVE sendToUserLoop(_, _, _, _, _)
sendToUserLoop(m, userId, event, visited, successCount) ==
    LET userClients == IF userId \in DOMAIN m.userConnections
                       THEN m.userConnections[userId] ELSE {}
        rest == userClients \ visited
    IN IF rest = {}
       THEN [m |-> m, ret |-> successCount]
       ELSE LET clientId == CHOOSE c \in rest : TRUE
                r == sendToClient(m, clientId, event)
            IN sendToUserLoop(r.m, userId, event, visited \cup {clientId},
                              IF r.ret THEN successCount + 1 ELSE successCount)

\* faulty variant: returns totalClients instead of successCount
sendToUserCountsTargets(m, userId, event) ==
    IF userId \notin DOMAIN m.userConnections \/ m.userConnections[userId] = {}
    THEN [m |-> m, ret |-> 0]
    ELSE [m |-> sendToUserLoop(m, userId, event, {}, 0).m,
          ret |-> Cardinality(m.userConnections[userId])]

sendToUser(m, userId, event) ==
    IF userId \notin DOMAIN m.userConnections \/ m.userConnections[userId] = {}
    THEN [m |-> m, ret |-> 0]
    ELSE sendToUserLoop(m, userId, event, {}, 0)

\* faulty variant: the loop stops at the first failed delivery
RECURSIVE broadcastLoopBreaks(_, _, _, _)
broadcastLoopBreaks(m, event, visited, successCount) ==
    LET rest == DOMAIN m.clients \ visited
    IN IF rest = {}
       THEN [m |-> m, ret |-> successCount]
       ELSE LET clientId == CHOOSE c \in rest : TRUE
                r == sendToClient(m, clientId, event)
            IN IF r.ret
               THEN broadcastLoopBreaks(r.m, event, visited \cup {clientId},
                                        successCount + 1)
               ELSE [m |-> r.m, ret |-> successCount]

\* `for (const clientId of this.clients.keys())`, iterated live
RECURSIVE broadcastLoop(_, _, _, _)
broadcastLoop(m, event, visited, successCount) ==
    LET rest == DOMAIN m.clients \ visited
    IN IF rest = {}
       THEN [m |-> m, ret |-> successCount]
       ELSE LET clientId == CHOOSE c \in rest : TRUE
                r == sendToClient(m, clientId, event)
            IN broadcastLoop(r.m, event, visited \cup {clientId},
                             IF r.ret THEN successCount + 1 ELSE successCount)

\* faulty variant: only the connections that have a user are visited
broadcastUsersOnly(m, event) ==
    broadcastLoop(m, event,
                  {clientId \in DOMAIN m.clients :
                      ~Truthy(m.clients[clientId].userId)}, 0)

\* faulty variant: the records of the connections are rewritten without
\* their user
broadcastForgetsUsers(m, event) ==
    LET r == broadcastLoop(m, event, {}, 0)
    IN [m |-> [r.m EXCEPT
                 !.clients = [clientId \in DOMAIN @ |->
                                [@[clientId] EXCEPT !.userId = NoUser]]],
        ret |-> r.ret]

broadcast(m, event) == broadcastLoop(m, event, {}, 0)

\* faulty variant: uniqueUsers counts the connections that have a user
getStatsCountsConnections(c, u) ==
    [totalConnections |-> Cardinality(DOMAIN c),
     uniqueUsers |->
         Cardinality({clientId \in DOMAIN c : Truthy(c[clientId].userId)}),
     connectionsByUser |-> [userId \in DOMAIN u |-> Cardinality(u[userId])]]

getStats(c, u) ==
    [totalConnections |-> Cardinality(DOMAIN c),
     uniqueUsers |-> Cardinality(DOMAIN u),
     connectionsByUser |-> [userId \in DOMAIN u |-> Cardinality(u[userId])]]

\* faulty variant: the comparison is > instead of >=
atCapacityOffByOne(c) == Cardinality(DOMAIN c) > maxConnections

\* `this.clients.size >= this.config.maxConnections`
atCapacity(c) == Cardinality(DOMAIN c) >= maxConnections

\* faulty variant: the connection is not entered in the user index
registerNoIndex(m, clientId, controller, userId, t) ==
    LET client == [userId |-> userId, sessionId |-> SessionOf(userId),
                   controller |-> controller, lastPing |-> t]
    IN sendToClient([m EXCEPT !.clients = Put(@, clientId, client)],
                    clientId, ConnectionEvent).m

\* faulty variant: the initial connection event is not sent
registerNoGreeting(m, clientId, controller, userId, t) ==
    LET client == [userId |-> userId, sessionId |-> SessionOf(userId),
                   controller |-> controller, lastPing |-> t]
    IN [m EXCEPT
          !.clients = Put(@, clientId, client),
          !.userConnections =
              IF Truthy(userId)
              THEN Put(@, userId,
                       (IF userId \in DOMAIN @ THEN @[userId] ELSE {})
                           \cup {clientId})
              ELSE @]

\* faulty variant: a notification sent earlier is delivered after the greeting
registerReplays(m, clientId, controller, userId, t) ==
    LET client == [userId |-> userId, sessionId |-> SessionOf(userId),
                   controller |-> controller, lastPing |-> t]
        m1 == [m EXCEPT
                 !.clients = Put(@, clientId, client),
                 !.userConnections =
                     IF Truthy(userId)
                     THEN Put(@, userId,
                              (IF userId \in DOMAIN @ THEN @[userId] ELSE {})
                                  \cup {clientId})
                     ELSE @]
        m2 == sendToClient(m1, clientId, ConnectionEvent).m
    IN sendToClient(m2, clientId, Event("notification", "object")).m

\* the body of addClient below the capacity check
register(m, clientId, controller, userId, t) ==
    LET client == [userId |-> userId, sessionId |-> SessionOf(userId),
                   controller |-> controller, lastPing |-> t]
        m1 == [m EXCEPT
                 !.clients = Put(@, clientId, client),
                 !.userConnections =
                     IF Truthy(userId)
                     THEN Put(@, userId,
                              (IF userId \in DOMAIN @ THEN @[userId] ELSE {})
                                  \cup {clientId})
                     ELSE @]
    IN sendToClient(m1, clientId, ConnectionEvent).m

\* faulty variant: the capacity check comes after the registration
addClientChecksLate(m, clientId, controller, userId, t) ==
    IF atCapacity(m.clients)
    THEN [register(m, clientId, controller, userId, t) EXCEPT !.raised = TRUE]
    ELSE register(m, clientId, controller, userId, t)

addClient(m, clientId, controller, userId, t) ==
    IF atCapacity(m.clients)
    THEN [m EXCEPT !.raised = TRUE]
    ELSE register(m, clientId, controller, userId, t)

\* `for (const clientId of deadClients) this.removeClient(clientId)`
RECURSIVE removeAll(_, _)
removeAll(m, ids) ==
    IF ids = {}
    THEN m
    ELSE LET clientId == CHOOSE c \in ids : TRUE
         IN removeAll(removeClient(m, clientId), ids \ {clientId})

\* faulty variant: a successful heartbeat does not refresh lastPing
RECURSIVE heartbeatLoopNoRefresh(_, _, _)
heartbeatLoopNoRefresh(m, t, visited) ==
    LET rest == DOMAIN m.clients \ visited
    IN IF rest = {}
       THEN m
       ELSE LET clientId == CHOOSE c \in rest : TRUE
                r == sendToClient(m, clientId, HeartbeatEvent)
            IN heartbeatLoopNoRefresh(r.m, t, visited \cup {clientId})

\* faulty variant: the loop ends at the first heartbeat that is refused
RECURSIVE heartbeatLoopBreaks(_, _, _)
heartbeatLoopBreaks(m, t, visited) ==
    LET rest == DOMAIN m.clients \ visited
    IN IF rest = {}
       THEN m
       ELSE LET clientId == CHOOSE c \in rest : TRUE
                r == sendToClient(m, clientId, HeartbeatEvent)
            IN IF r.ret /\ clientId \in DOMAIN r.m.clients
               THEN heartbeatLoopBreaks(
                        [r.m EXCEPT !.clients[clientId].lastPing = t], t,
                        visited \cup {clientId})
               ELSE r.m

\* the heartbeat loop: a successful send refreshes lastPing to the tick time
RECURSIVE heartbeatLoop(_, _, _)
heartbeatLoop(m, t, visited) ==
    LET rest == DOMAIN m.clients \ visited
    IN IF rest = {}
       THEN m
       ELSE LET clientId == CHOOSE c \in rest : TRUE
                r == sendToClient(m, clientId, HeartbeatEvent)
                m1 == IF r.ret /\ clientId \in DOMAIN r.m.clients
                      THEN [r.m EXCEPT !.clients[clientId].lastPing = t]
                      ELSE r.m
            IN heartbeatLoop(m1, t, visited \cup {clientId})

deadClients(c, t) == {clientId \in DOMAIN c : t - c[clientId].lastPing > ConnectionTimeout}

\* faulty variant: the tick removes the stale connections and sends nothing
heartbeatReapsOnly(m, t) == removeAll(m, deadClients(m.clients, t))

\* faulty variant: the heartbeats are sent before the stale connections go
heartbeatSendsFirst(m, t) ==
    removeAll(heartbeatLoop(m, t, {}), deadClients(m.clients, t))

\* the setInterval callback
heartbeat(m, t) == heartbeatLoop(removeAll(m, deadClients(m.clients, t)), t, {})

\* faulty variant: a close that throws ends the loop
RECURSIVE destroyLoopAborts(_, _)
destroyLoopAborts(m, visited) ==
    LET rest == DOMAIN m.clients \ visited
    IN IF rest = {}
       THEN m
       ELSE LET clientId == CHOOSE c \in rest : TRUE
            IN IF closeOk(m.clients[clientId].controller)
               THEN destroyLoopAborts(removeClient(m, clientId),
                                      visited \cup {clientId})
               ELSE [m EXCEPT !.closes = Append(@, <<clientId, FALSE>>),
                              !.raised = TRUE]

\* destroy's loop over this.clients.keys(), iterated live
RECURSIVE destroyLoop(_, _)
destroyLoop(m, visited) ==
    LET rest == DOMAIN m.clients \ visited
    IN IF rest = {}
       THEN m
       ELSE LET clientId == CHOOSE c \in rest : TRUE
            IN destroyLoop(removeClient(m, clientId), visited \cup {clientId})

----------------------------------------------------------------------------
(* State machine *)

----------------------------------------------------------------------------
(* The client hook useSSE, mounted once with its default options, and the  *)
(* EventSource it creates.  The hook's state is what its useState and      *)
(* useRef cells hold; error is TRUE when an error message is set,          *)
(* reconnectTimeout is the set of delays of the armed timeout (empty when  *)
(* the ref is null), lastMessage is the set holding the last message (empty *)
(* when it is null), and retries counts the connection attempts the        *)
(* EventSource has started by itself since the hook last called connect or *)
(* the connection last opened.                                             *)

\* reconnect = true
Reconnect == TRUE

\* reconnectInterval, in time units
ReconnectInterval == 3

\* maxReconnectAttempts
MaxReconnectAttempts == 2

\* the attempts an EventSource is followed through before it is left alone
MaxRetries == 3

\* the messages the hook is followed through before they are cleared
MaxMessages == 2

\* EventSource.readyState, "null" when eventSourceRef holds no EventSource
ReadyStates == {"null", "connecting", "open", "closed"}

\* the cells of a hook that has rendered and not yet run its mount effect
Unmounted ==
    [eventSource |-> "null", isConnected |-> FALSE, isConnecting |-> FALSE,
     error |-> FALSE, reconnectAttempts |-> 0, reconnectTimeout |-> {},
     shouldReconnect |-> TRUE, retries |-> 0, lastMessage |-> {},
     messages |-> << >>]

\* the event types the hook listens to; "message" is an event without a type
MessageTypes == {"message", "notification", "system", "heartbeat", "connection"}

\* handleMessage, for an event of the given type received at time t
handleMessage(h, type, t) ==
    LET message == [type |-> type, timestamp |-> t]
    IN [h EXCEPT !.lastMessage = {message}, !.messages = Append(@, message)]

\* clearMessages()
clearMessages(h) == [h EXCEPT !.lastMessage = {}, !.messages = << >>]

\* handleOpen, the EventSource's onopen
handleOpen(h) ==
    [h EXCEPT !.isConnected = TRUE, !.isConnecting = FALSE, !.error = FALSE,
              !.reconnectAttempts = 0]

\* handleError, the EventSource's onerror
handleError(h) ==
    [h EXCEPT !.error = TRUE, !.isConnecting = FALSE]

\* handleClose; connect attaches it to nothing, so no event runs it
handleClose(h) ==
    LET closed == [h EXCEPT !.isConnected = FALSE, !.isConnecting = FALSE]
    IN IF /\ Reconnect
          /\ h.shouldReconnect
          /\ h.reconnectAttempts < MaxReconnectAttempts
       THEN [closed EXCEPT !.reconnectAttempts = @ + 1,
                           !.reconnectTimeout = {ReconnectInterval}]
       ELSE closed

\* connect(): nothing when open or connecting, else a new EventSource
connect(h) ==
    IF h.eventSource = "open" \/ h.isConnecting
    THEN h
    ELSE [h EXCEPT !.isConnecting = TRUE, !.error = FALSE,
                   !.shouldReconnect = TRUE, !.eventSource = "connecting",
                   !.retries = 0]

\* faulty variant: the EventSource is left as it is
disconnectKeepsEventSource(h) ==
    [h EXCEPT !.shouldReconnect = FALSE, !.reconnectTimeout = {},
              !.isConnected = FALSE, !.isConnecting = FALSE]

\* disconnect()
disconnect(h) ==
    [h EXCEPT !.shouldReconnect = FALSE, !.reconnectTimeout = {},
              !.eventSource = "null", !.isConnected = FALSE,
              !.isConnecting = FALSE, !.retries = 0]

\* the record of one step: the call, its result and its controller traffic.
\* The result is kept under a field of its own type: ok for the boolean of
\* sendToClient, ret for the count of sendToUser and broadcast, stats for the
\* object of getStats, and no field for a method declared void.
Call(op, id, user, ret, m) ==
    CASE op = "sendToClient" ->
           [op |-> op, id |-> id, user |-> user, ok |-> ret,
            raised |-> m.raised, writes |-> m.writes, closes |-> m.closes]
      [] op \in {"sendToUser", "broadcast"} ->
           [op |-> op, id |-> id, user |-> user, ret |-> ret,
            raised |-> m.raised, writes |-> m.writes, closes |-> m.closes]
      [] op = "getStats" ->
           [op |-> op, id |-> id, user |-> user, stats |-> ret,
            raised |-> m.raised, writes |-> m.writes, closes |-> m.closes]
      [] OTHER ->
           [op |-> op, id |-> id, user |-> user,
            raised |-> m.raised, writes |-> m.writes, closes |-> m.closes]

Current == Machine(clients, userConnections)

Commit(m) ==
    /\ clients' = m.clients
    /\ userConnections' = m.userConnections

Init ==
    /\ clients = << >>
    /\ userConnections = << >>
    /\ maxConnections = MaxConnections
    /\ hook = Unmounted
    /\ streams = << >>
    /\ heartbeatTimer = TRUE
    /\ nextTick = HeartbeatInterval
    /\ now = 0
    /\ last = Call("new", NoId, NoUser, Void, Current)

\* addClient(clientId, controller, userId, sessionId); the controller offered
\* may already be unreadable
AddClient(clientId, controller, userId) ==
    LET m == addClient(Current, clientId, controller, userId, now)
    IN /\ Commit(m)
       /\ last' = Call("addClient", clientId, userId, Void, m)
       /\ UNCHANGED <<maxConnections, hook, streams, heartbeatTimer, nextTick, now>>

RemoveClient(clientId) ==
    LET m == removeClient(Current, clientId)
    IN /\ Commit(m)
       /\ last' = Call("removeClient", clientId, NoUser, Void, m)
       /\ UNCHANGED <<maxConnections, hook, streams, heartbeatTimer, nextTick, now>>

SendToClient(clientId, event) ==
    LET r == sendToClient(Current, clientId, event)
    IN /\ Commit(r.m)
       /\ last' = Call("sendToClient", clientId, NoUser, r.ret, r.m)
       /\ UNCHANGED <<maxConnections, hook, streams, heartbeatTimer, nextTick, now>>

SendToUser(userId, event) ==
    LET r == sendToUser(Current, userId, event)
    IN /\ Commit(r.m)
       /\ last' = Call("sendToUser", NoId, userId, r.ret, r.m)
       /\ UNCHANGED <<maxConnections, hook, streams, heartbeatTimer, nextTick, now>>

Broadcast(event) ==
    LET r == broadcast(Current, event)
    IN /\ Commit(r.m)
       /\ last' = Call("broadcast", NoId, NoUser, r.ret, r.m)
       /\ UNCHANGED <<maxConnections, hook, streams, heartbeatTimer, nextTick, now>>

\* the interval timer fires: never early, possibly late
Heartbeat ==
    /\ heartbeatTimer
    /\ now >= nextTick
    /\ LET m == heartbeat(Current, now)
       IN /\ Commit(m)
          /\ last' = Call("heartbeat", NoId, NoUser, Void, m)
    /\ nextTick' = now + HeartbeatInterval
    /\ UNCHANGED <<maxConnections, hook, streams, heartbeatTimer, now>>

\* faulty variant: the interval timer is left armed
DestroyKeepsTimer ==
    LET m == destroyLoop(Current, {})
    IN /\ heartbeatTimer' = heartbeatTimer
       /\ Commit(m)
       /\ last' = Call("destroy", NoId, NoUser, Void, m)
       /\ UNCHANGED <<maxConnections, hook, streams, nextTick, now>>

Destroy ==
    LET m == destroyLoop(Current, {})
    IN /\ heartbeatTimer' = FALSE
       /\ Commit(m)
       /\ last' = Call("destroy", NoId, NoUser, Void, m)
       /\ UNCHANGED <<maxConnections, hook, streams, nextTick, now>>

\* the stream of a connection stops being readable (peer gone, stream
\* errored): the registry is not told
SinkBreak(clientId) ==
    /\ clientId \in DOMAIN clients
    /\ clients[clientId].controller = "open"
    /\ clients' = [clients EXCEPT ![clientId].controller = "errored"]
    /\ last' = Call("sinkBreak", NoId, NoUser, Void, Current)
    /\ UNCHANGED <<userConnections, maxConnections, hook, streams, heartbeatTimer, nextTick,
                   now>>

Advance ==
    /\ now < MaxTime
    /\ now' = now + 1
    /\ last' = Call("advance", NoId, NoUser, Void, Current)
    /\ UNCHANGED <<clients, userConnections, maxConnections, hook, streams, heartbeatTimer,
                   nextTick>>

\* getStats() reads the two maps and writes nothing
GetStats ==
    /\ last' = Call("getStats", NoId, NoUser,
                    getStats(clients, userConnections), Current)
    /\ UNCHANGED <<clients, userConnections, maxConnections, hook, streams, heartbeatTimer,
                   nextTick, now>>

Next ==
    \/ \E clientId \in ClientIds \ DOMAIN clients, controller \in ControllerStates,
          userId \in UserIds \cup {NoUser} :
           AddClient(clientId, controller, userId)
    \/ \E clientId \in ClientIds : RemoveClient(clientId)
    \/ \E clientId \in ClientIds, event \in Events : SendToClient(clientId, event)
    \/ \E userId \in UserIds, event \in Events : SendToUser(userId, event)
    \/ \E event \in Events : Broadcast(event)
    \/ GetStats
    \/ Heartbeat
    \/ Destroy
    \/ \E clientId \in ClientIds : SinkBreak(clientId)
    \/ Advance

Spec == Init /\ [][Next]_vars

----------------------------------------------------------------------------
(* A registry constructed with room for three connections                  *)
(* (new SSEManager({ maxConnections: 3 })), observed between two reaper    *)
(* ticks: no time passes and the timer does not fire.                      *)

RoomForThree == 3

InitThree ==
    /\ clients = << >>
    /\ userConnections = << >>
    /\ maxConnections = RoomForThree
    /\ hook = Unmounted
    /\ streams = << >>
    /\ heartbeatTimer = TRUE
    /\ nextTick = HeartbeatInterval
    /\ now = 0
    /\ last = Call("new", NoId, NoUser, Void, Current)

NextThree ==
    \/ \E clientId \in ClientIds \ DOMAIN clients, controller \in ControllerStates,
          userId \in UserIds \cup {NoUser} :
           AddClient(clientId, controller, userId)
    \/ \E clientId \in ClientIds : RemoveClient(clientId)
    \/ \E clientId \in ClientIds, event \in Events : SendToClient(clientId, event)
    \/ \E userId \in UserIds, event \in Events : SendToUser(userId, event)
    \/ \E event \in Events : Broadcast(event)
    \/ GetStats
    \/ \E clientId \in ClientIds : SinkBreak(clientId)

SpecThree == InitThree /\ [][NextThree]_vars

----------------------------------------------------------------------------
(* The registry with its timer firing on time, for ever: the callback runs *)
(* at every multiple of heartbeatInterval, neither early nor late, and     *)
(* destroy is not called.  The code compares times only by their           *)
(* difference (now - lastPing, and the timer's due time against now), so   *)
(* once the clock has reached MaxClock a further unit of time is           *)
(* represented by moving every stored time one unit into the past, an age  *)
(* of MaxClock standing for every age at least that large.                 *)

\* the clock is kept within 0 .. MaxClock
MaxClock == 4

\* a stored time, one unit further in the past
Earlier(t) == IF t > 0 THEN t - 1 ELSE 0

\* faulty variant: time passes although the timer is overdue
TimePassesOverdue ==
    IF now < MaxClock
    THEN now' = now + 1 /\ nextTick' = nextTick
    ELSE now' = now /\ nextTick' = Earlier(nextTick)

\* the clock when one unit of time passes; the timer is never overrun
TimePasses ==
    /\ now < nextTick
    /\ IF now < MaxClock
       THEN now' = now + 1 /\ nextTick' = nextTick
       ELSE now' = now /\ nextTick' = Earlier(nextTick)

\* one unit of time passes
Elapse ==
    /\ TimePasses
    /\ clients' = IF now < MaxClock
                  THEN clients
                  ELSE [clientId \in DOMAIN clients |->
                          [clients[clientId] EXCEPT !.lastPing = Earlier(@)]]
    /\ last' = Call("advance", NoId, NoUser, Void, Current)
    /\ UNCHANGED <<userConnections, maxConnections, hook, streams, heartbeatTimer>>

NextOnTime ==
    \/ \E clientId \in ClientIds \ DOMAIN clients, controller \in ControllerStates,
          userId \in UserIds \cup {NoUser} :
           AddClient(clientId, controller, userId)
    \/ \E clientId \in ClientIds : RemoveClient(clientId)
    \/ \E clientId \in ClientIds, event \in Events : SendToClient(clientId, event)
    \/ \E userId \in UserIds, event \in Events : SendToUser(userId, event)
    \/ \E event \in Events : Broadcast(event)
    \/ Heartbeat
    \/ \E clientId \in ClientIds : SinkBreak(clientId)
    \/ Elapse

\* the clock when the armed timer fires (the clock part of Heartbeat)
TimerFires ==
    /\ heartbeatTimer
    /\ now >= nextTick
    /\ nextTick' = now + HeartbeatInterval
    /\ now' = now

\* the time now and the time the timer is due; of the steps of NextOnTime
\* only Elapse and Heartbeat change them
clock == <<now, nextTick>>

\* time keeps passing and setInterval keeps firing: the Elapse steps and the
\* Heartbeat steps are the steps that change the clock as TimePasses and
\* TimerFires say
SpecOnTime ==
    /\ Init
    /\ [][NextOnTime]_vars
    /\ WF_clock(TimePasses)
    /\ WF_clock(TimerFires)

----------------------------------------------------------------------------
(* The frame codec: formatSSEMessage, a pure function from an event to the *)
(* text written to the sink.  A text is a sequence of characters; the only *)
(* character that matters is the newline, so a run of other characters may *)
(* stand as one element ("id: ", "3000").  An event is a record that holds *)
(* the optional fields id and retry only when they are given.  A data      *)
(* value is tagged with its JavaScript type.                               *)

\* the longest string payload
MaxLen == 3

NL == "\n"

\* the texts of at most n characters over the letter a and the newline
RECURSIVE Texts(_)
Texts(n) ==
    IF n = 0
    THEN {<< >>}
    ELSE LET shorter == Texts(n - 1)
         IN shorter \cup {Append(t, c) : t \in shorter, c \in {"a", NL}}

\* JSON-serializable data: strings, a number, null, an array of one string
CodecData ==
    {[t |-> "string", v |-> text] : text \in Texts(MaxLen)}
        \cup {[t |-> "array", v |-> text] : text \in Texts(MaxLen)}
        \cup {[t |-> "number", n |-> 1], [t |-> "null"]}

\* retry?: number, in milliseconds
Retries == {0, 3000}

\* the events offered to the codec
CodecEvents ==
    LET types == {<< >>, <<"notification">>}
        ids == {<< >>, <<"x1">>}
        plain == {[type |-> type, data |-> data] :
                     type \in types, data \in CodecData}
        withId == {[type |-> e.type, data |-> e.data, id |-> id] :
                      e \in plain, id \in ids}
        withRetry == {[type |-> e.type, data |-> e.data, retry |-> retry] :
                         e \in plain, retry \in Retries}
        withBoth == {[type |-> e.type, data |-> e.data, id |-> e.id,
                      retry |-> retry] : e \in withId, retry \in Retries}
    IN plain \cup withId \cup withRetry \cup withBoth

\* JSON.stringify escapes a newline inside a string as backslash, n
RECURSIVE escape(_)
escape(text) ==
    IF text = << >>
    THEN << >>
    ELSE (IF Head(text) = NL THEN <<"\\", "n">> ELSE <<Head(text)>>)
             \o escape(Tail(text))

\* JSON.stringify(data) for data that is not a string
stringify(data) ==
    CASE data.t = "number" -> <<ToString(data.n)>>
      [] data.t = "null" -> <<"null">>
      [] data.t = "array" -> <<"[", "\"">> \o escape(data.v) \o <<"\"", "]">>

\* faulty variant: the payload is not split
splitNot(text) == <<text>>

\* text.split("\n"): the pieces between the newlines, at least one
RECURSIVE split(_)
split(text) ==
    IF \A i \in 1 .. Len(text) : text[i] # NL
    THEN <<text>>
    ELSE LET i == CHOOSE k \in 1 .. Len(text) :
                     text[k] = NL /\ \A j \in 1 .. k - 1 : text[j] # NL
         IN <<SubSeq(text, 1, i - 1)>> \o split(SubSeq(text, i + 1, Len(text)))

\* `for (const line of dataLines) message += "data: " + line + "\n"`
RECURSIVE dataFields(_)
dataFields(dataLines) ==
    IF dataLines = << >>
    THEN << >>
    ELSE <<"data: ">> \o Head(dataLines) \o <<NL>> \o dataFields(Tail(dataLines))

formatSSEMessage(event) ==
    LET idField == IF "id" \in DOMAIN event /\ event.id # << >>
                   THEN <<"id: ">> \o event.id \o <<NL>>
                   ELSE << >>
        typeField == IF event.type # << >>
                     THEN <<"event: ">> \o event.type \o <<NL>>
                     ELSE << >>
        retryField == IF "retry" \in DOMAIN event /\ event.retry # 0
                      THEN <<"retry: ", ToString(event.retry), NL>>
                      ELSE << >>
        dataString == IF event.data.t = "string"
                      THEN event.data.v
                      ELSE stringify(event.data)
    IN idField \o typeField \o retryField \o dataFields(split(dataString))
           \o <<NL>>

\* the codec applied to one event
FormatSSEMessage(event) ==
    /\ last' = [op |-> "formatSSEMessage", event |-> event,
                message |-> formatSSEMessage(event)]
    /\ UNCHANGED <<clients, userConnections, maxConnections, hook, streams, heartbeatTimer,
                   nextTick, now>>

NextCodec == \E event \in CodecEvents : FormatSSEMessage(event)

SpecCodec == Init /\ [][NextCodec]_vars

----------------------------------------------------------------------------
(* The notification helpers of notifications.ts, which build an SSEEvent   *)
(* and hand it to the registry.  A payload is the record the caller        *)
(* passes, with or without a timestamp; Date.now() is the clock, which the *)
(* helpers read at two instants.                                           *)

\* the timestamps a caller supplies: the epoch itself and a later instant
Timestamps == {0, 7}

\* notification types of NotificationPayload, as the sugar passes them
Severities == {"success", "error", "info", "warning"}

\* a payload with or without the optional timestamp
WithTimestamps(payload) ==
    {payload} \cup
    {[k \in DOMAIN payload \cup {"timestamp"} |->
        IF k = "timestamp" THEN t ELSE payload[k]] : t \in Timestamps}

NotificationPayloads == WithTimestamps([type |-> "info", message |-> "m"])
SystemEventPayloads == WithTimestamps([type |-> "maintenance", message |-> "m"])
CustomData == WithTimestamps([value |-> "v"])

\* options of the custom helpers: absent, an id (possibly ""), a retry
CustomOptions == {[none |-> TRUE], [id |-> ""], [id |-> "x1"], [retry |-> 3000]}

\* { ...payload, timestamp: payload.timestamp || Date.now() }
stamp(payload, t) ==
    [k \in DOMAIN payload \cup {"timestamp"} |->
        IF k = "timestamp"
        THEN IF "timestamp" \in DOMAIN payload /\ payload.timestamp # 0
             THEN payload.timestamp
             ELSE t
        ELSE payload[k]]

\* `${prefix}_${Date.now()}_${Math.random()...}`
generatedId(prefix, t) == [prefix |-> prefix, time |-> t, random |-> "r"]

\* options?.id || generated
customId(options, t) ==
    IF "id" \in DOMAIN options /\ options.id # ""
    THEN [own |-> options.id]
    ELSE generatedId("custom", t)

\* the event of the custom helpers: data as passed, retry: options?.retry
customEvent(eventType, data, options, t) ==
    IF "retry" \in DOMAIN options
    THEN [type |-> eventType, data |-> data, id |-> customId(options, t),
          retry |-> options.retry]
    ELSE [type |-> eventType, data |-> data, id |-> customId(options, t)]

\* what the registry makes of a helper's event: its type and an object payload
Wire(event) == Event(event.type, "object")

\* faulty variant: the event goes to every connection
sendUserNotificationToAll(m, userId, payload, t) ==
    LET event == [type |-> "notification", data |-> stamp(payload, t),
                  id |-> generatedId("notification", t)]
        r == broadcast(m, Wire(event))
    IN [m |-> r.m, ret |-> r.ret, event |-> event]

sendUserNotification(m, userId, payload, t) ==
    LET event == [type |-> "notification", data |-> stamp(payload, t),
                  id |-> generatedId("notification", t)]
        r == sendToUser(m, userId, Wire(event))
    IN [m |-> r.m, ret |-> r.ret, event |-> event]

sendUserSystemEvent(m, userId, payload, t) ==
    LET event == [type |-> "system", data |-> stamp(payload, t),
                  id |-> generatedId("system", t)]
        r == sendToUser(m, userId, Wire(event))
    IN [m |-> r.m, ret |-> r.ret, event |-> event]

broadcastNotification(m, payload, t) ==
    LET event == [type |-> "notification", data |-> stamp(payload, t),
                  id |-> generatedId("broadcast", t)]
        r == broadcast(m, Wire(event))
    IN [m |-> r.m, ret |-> r.ret, event |-> event]

broadcastSystemEvent(m, payload, t) ==
    LET event == [type |-> "system", data |-> stamp(payload, t),
                  id |-> generatedId("broadcast_system", t)]
        r == broadcast(m, Wire(event))
    IN [m |-> r.m, ret |-> r.ret, event |-> event]

sendUserCustomEvent(m, userId, eventType, data, options, t) ==
    LET event == customEvent(eventType, data, options, t)
        r == sendToUser(m, userId, Wire(event))
    IN [m |-> r.m, ret |-> r.ret, event |-> event]

broadcastCustomEvent(m, eventType, data, options, t) ==
    LET event == customEvent(eventType, data, options, t)
        r == broadcast(m, Wire(event))
    IN [m |-> r.m, ret |-> r.ret, event |-> event]

\* notifications.success / error / info / warning
notifications(m, severity, userId, message, t) ==
    sendUserNotification(m, userId, [type |-> severity, message |-> message], t)

\* broadcasts.success / error / info / warning
broadcasts(m, severity, message, t) ==
    broadcastNotification(m, [type |-> severity, message |-> message], t)

\* the record of one helper call: the arguments, the event built, the count
\* returned and the controller traffic
Helped(op, user, payload, r) ==
    [op |-> op, user |-> user, payload |-> payload, event |-> r.event,
     ret |-> r.ret, raised |-> r.m.raised, writes |-> r.m.writes,
     closes |-> r.m.closes]

SendUserNotification(userId, payload) ==
    LET r == sendUserNotification(Current, userId, payload, now)
    IN /\ Commit(r.m)
       /\ last' = Helped("sendUserNotification", userId, payload, r)
       /\ UNCHANGED <<maxConnections, hook, streams, heartbeatTimer, nextTick, now>>

SendUserSystemEvent(userId, payload) ==
    LET r == sendUserSystemEvent(Current, userId, payload, now)
    IN /\ Commit(r.m)
       /\ last' = Helped("sendUserSystemEvent", userId, payload, r)
       /\ UNCHANGED <<maxConnections, hook, streams, heartbeatTimer, nextTick, now>>

SendUserCustomEvent(userId, eventType, data, options) ==
    LET r == sendUserCustomEvent(Current, userId, eventType, data, options, now)
    IN /\ Commit(r.m)
       /\ last' = Helped("sendUserCustomEvent", userId, data, r)
       /\ UNCHANGED <<maxConnections, hook, streams, heartbeatTimer, nextTick, now>>

BroadcastNotification(payload) ==
    LET r == broadcastNotification(Current, payload, now)
    IN /\ Commit(r.m)
       /\ last' = Helped("broadcastNotification", NoUser, payload, r)
       /\ UNCHANGED <<maxConnections, hook, streams, heartbeatTimer, nextTick, now>>

BroadcastSystemEvent(payload) ==
    LET r == broadcastSystemEvent(Current, payload, now)
    IN /\ Commit(r.m)
       /\ last' = Helped("broadcastSystemEvent", NoUser, payload, r)
       /\ UNCHANGED <<maxConnections, hook, streams, heartbeatTimer, nextTick, now>>

BroadcastCustomEvent(eventType, data, options) ==
    LET r == broadcastCustomEvent(Current, eventType, data, options, now)
    IN /\ Commit(r.m)
       /\ last' = Helped("broadcastCustomEvent", NoUser, data, r)
       /\ UNCHANGED <<maxConnections, hook, streams, heartbeatTimer, nextTick, now>>

Notifications(severity, userId, message) ==
    LET r == notifications(Current, severity, userId, message, now)
    IN /\ Commit(r.m)
       /\ last' = Helped("notifications", userId,
                         [type |-> severity, message |-> message], r)
       /\ UNCHANGED <<maxConnections, hook, streams, heartbeatTimer, nextTick, now>>

Broadcasts(severity, message) ==
    LET r == broadcasts(Current, severity, message, now)
    IN /\ Commit(r.m)
       /\ last' = Helped("broadcasts", NoUser,
                         [type |-> severity, message |-> message], r)
       /\ UNCHANGED <<maxConnections, hook, streams, heartbeatTimer, nextTick, now>>

\* the connections the helpers are tried on
TwoClientIds == {"c1", "c2"}

\* the helpers called on a registry whose connections come and break
NextHelpers ==
    \/ \E clientId \in TwoClientIds \ DOMAIN clients, controller \in ControllerStates,
          userId \in UserIds \cup {NoUser} :
           AddClient(clientId, controller, userId)
    \/ \E clientId \in TwoClientIds : SinkBreak(clientId)
    \/ now = 0 /\ Advance
    \/ \E userId \in UserIds, payload \in NotificationPayloads :
           SendUserNotification(userId, payload)
    \/ \E userId \in UserIds, payload \in SystemEventPayloads :
           SendUserSystemEvent(userId, payload)
    \/ \E userId \in UserIds, data \in CustomData, options \in CustomOptions :
           SendUserCustomEvent(userId, "custom", data, options)
    \/ \E payload \in NotificationPayloads : BroadcastNotification(payload)
    \/ \E payload \in SystemEventPayloads : BroadcastSystemEvent(payload)
    \/ \E data \in CustomData, options \in CustomOptions :
           BroadcastCustomEvent("custom", data, options)
    \/ \E severity \in Severities, userId \in UserIds :
           Notifications(severity, userId, "m")
    \/ \E severity \in Severities : Broadcasts(severity, "m")

SpecHelpers == Init /\ [][NextHelpers]_vars

----------------------------------------------------------------------------
(* The SSE route: GET answers one streaming request.  It reads the         *)
(* session, generates a connection id, creates the ReadableStream, whose   *)
(* start callback runs inside the constructor and registers the            *)
(* connection, and returns the Response.  A response is its status, its    *)
(* Content-Type and the state of its body.                                 *)

\* new Response(stream, { status: 200, "Content-Type": "text/event-stream" })
streamResponse(body) ==
    [status |-> 200, contentType |-> "text/event-stream", body |-> body]

\* the answer of the outer catch
errorResponse ==
    [status |-> 500, contentType |-> "application/json", body |-> "json"]

\* GET for a request whose session resolves to userId (or to no user), or
\* whose getSession() rejects; start() catches what addClient throws and
\* errors the stream with it
GET(m, clientId, userId, sessionResolves, t) ==
    IF ~sessionResolves
    THEN [m |-> m, response |-> errorResponse, addClientRaised |-> FALSE]
    ELSE LET m1 == addClient(m, clientId, "open", userId, t)
         IN [m |-> [m1 EXCEPT !.raised = FALSE],
             response |-> streamResponse(IF m1.raised THEN "errored" ELSE "open"),
             addClientRaised |-> m1.raised]

\* a streaming request arrives; the id generated for it was never used
Get(clientId, userId, sessionResolves) ==
    LET r == GET(Current, clientId, userId, sessionResolves, now)
    IN /\ Commit(r.m)
       /\ streams' = IF sessionResolves
                     THEN Put(streams, clientId,
                              IF r.addClientRaised THEN "errored" ELSE "started")
                     ELSE streams
       /\ last' = [op |-> "GET", id |-> clientId, user |-> userId,
                   response |-> r.response,
                   addClientRaised |-> r.addClientRaised,
                   raised |-> r.m.raised, writes |-> r.m.writes,
                   closes |-> r.m.closes]
       /\ UNCHANGED <<maxConnections, hook, heartbeatTimer, nextTick, now>>

\* faulty variant: cancel() does not tell the registry
CancelKeepsConnection(clientId) ==
    /\ clientId \in DOMAIN streams
    /\ streams[clientId] = "started"
    /\ streams' = [streams EXCEPT ![clientId] = "cancelled"]
    /\ last' = Call("cancel", clientId, NoUser, Void, Current)
    /\ UNCHANGED <<clients, userConnections, maxConnections, hook,
                   heartbeatTimer, nextTick, now>>

\* the peer of a stream goes away and the stream's cancel() runs, once; the
\* registry may have dropped the connection before
Cancel(clientId) ==
    /\ clientId \in DOMAIN streams
    /\ streams[clientId] = "started"
    /\ streams' = [streams EXCEPT ![clientId] = "cancelled"]
    /\ LET m == removeClient(Current, clientId)
       IN /\ Commit(m)
          /\ last' = Call("cancel", clientId, NoUser, Void, m)
    /\ UNCHANGED <<maxConnections, hook, heartbeatTimer, nextTick, now>>

\* the route serving requests while events are broadcast, streams break, the
\* reaper ticks and the registry is destroyed
NextRoute ==
    \/ \E clientId \in ClientIds \ DOMAIN streams,
          userId \in UserIds \cup {NoUser}, sessionResolves \in BOOLEAN :
           Get(clientId, userId, sessionResolves)
    \/ \E clientId \in ClientIds : Cancel(clientId)
    \/ \E clientId \in ClientIds : SinkBreak(clientId)
    \/ \E event \in Events : Broadcast(event)
    \/ Advance
    \/ Heartbeat
    \/ Destroy

SpecRoute == Init /\ [][NextRoute]_vars

----------------------------------------------------------------------------
(* The hook in the browser.  The EventSource the hook creates opens, or    *)
(* meets an error: after an error the browser either gives the connection  *)
(* up (readyState CLOSED) or sets about re-establishing it by itself       *)
(* (readyState CONNECTING, a new attempt after its reconnection time);     *)
(* either way it fires the error event.  The component calls connect (its  *)
(* mount effect does) and disconnect.                                      *)

\* connect(), from the mount effect or from the component
Connect ==
    /\ hook' = connect(hook)
    /\ last' = Call("connect", NoId, NoUser, Void, Current)
    /\ UNCHANGED <<clients, userConnections, maxConnections, streams, heartbeatTimer,
                   nextTick, now>>

\* disconnect(), from the unmount cleanup or from the component
Disconnect ==
    /\ hook' = disconnect(hook)
    /\ last' = Call("disconnect", NoId, NoUser, Void, Current)
    /\ UNCHANGED <<clients, userConnections, maxConnections, streams, heartbeatTimer,
                   nextTick, now>>

\* the connection is established: readyState OPEN, then onopen
EventSourceOpen ==
    /\ hook.eventSource = "connecting"
    /\ hook' = handleOpen([hook EXCEPT !.eventSource = "open", !.retries = 0])
    /\ last' = Call("open", NoId, NoUser, Void, Current)
    /\ UNCHANGED <<clients, userConnections, maxConnections, streams, heartbeatTimer,
                   nextTick, now>>

\* the connection fails or is lost: the browser gives up (fatal) or starts
\* one more attempt of its own, then onerror
EventSourceError(fatal) ==
    /\ hook.eventSource \in {"connecting", "open"}
    /\ fatal \/ hook.retries < MaxRetries
    /\ hook' = handleError(IF fatal
                           THEN [hook EXCEPT !.eventSource = "closed"]
                           ELSE [hook EXCEPT !.eventSource = "connecting",
                                             !.retries = @ + 1])
    /\ last' = Call("error", NoId, NoUser, Void, Current)
    /\ UNCHANGED <<clients, userConnections, maxConnections, streams, heartbeatTimer,
                   nextTick, now>>

\* an event arrives on the open connection: onmessage or a typed listener
EventSourceMessage(type) ==
    /\ hook.eventSource = "open"
    /\ Len(hook.messages) < MaxMessages
    /\ hook' = handleMessage(hook, type, now)
    /\ last' = Call("message", NoId, NoUser, Void, Current)
    /\ UNCHANGED <<clients, userConnections, maxConnections, streams, heartbeatTimer,
                   nextTick, now>>

\* clearMessages(), from the component
ClearMessages ==
    /\ hook' = clearMessages(hook)
    /\ last' = Call("clearMessages", NoId, NoUser, Void, Current)
    /\ UNCHANGED <<clients, userConnections, maxConnections, streams, heartbeatTimer,
                   nextTick, now>>

NextHook ==
    \/ Connect
    \/ Disconnect
    \/ EventSourceOpen
    \/ \E fatal \in BOOLEAN : EventSourceError(fatal)
    \/ \E type \in MessageTypes : EventSourceMessage(type)
    \/ ClearMessages

SpecHook == Init /\ [][NextHook]_vars

----------------------------------------------------------------------------
(* The registry sent events of any kind: SSEEvent.data is typed `any`, so  *)
(* a caller may pass an event whose data JSON.stringify turns into no text *)
(* (undefined, a function, a symbol).                                      *)

\* a notification with an object payload, and one whose data is undefined
AnyEvents == Events \cup {Event("notification", Undefined)}

NextAnyEvent ==
    \/ \E clientId \in ClientIds \ DOMAIN clients, controller \in ControllerStates,
          userId \in UserIds \cup {NoUser} :
           AddClient(clientId, controller, userId)
    \/ \E clientId \in ClientIds, event \in AnyEvents : SendToClient(clientId, event)
    \/ \E userId \in UserIds, event \in AnyEvents : SendToUser(userId, event)
    \/ \E event \in AnyEvents : Broadcast(event)
    \/ \E clientId \in ClientIds : SinkBreak(clientId)

SpecAnyEvent == Init /\ [][NextAnyEvent]_vars

----------------------------------------------------------------------------
(* The registry offered ids without regard to what is registered: addClient *)
(* takes any string as clientId, so a caller may pass the id of a live     *)
(* connection.                                                             *)

NextAnyId ==
    \/ \E clientId \in ClientIds, controller \in ControllerStates,
          userId \in UserIds \cup {NoUser} :
           AddClient(clientId, controller, userId)
    \/ \E clientId \in ClientIds : RemoveClient(clientId)
    \/ \E userId \in UserIds, event \in Events : SendToUser(userId, event)
    \/ \E clientId \in ClientIds : SinkBreak(clientId)

SpecAnyId == Init /\ [][NextAnyId]_vars

----------------------------------------------------------------------------
(* Properties *)

\* the ids indexed under userId (none when the user has no entry)
UserClients(index, userId) == IF userId \in DOMAIN index THEN index[userId] ELSE {}

\* clientId is in some set of the index
Indexed(index, clientId) == \E userId \in DOMAIN index : clientId \in index[userId]

\* the ids among `ids` whose connection is registered in c and accepts a write
Accepting(c, ids) == {clientId \in ids \cap DOMAIN c : enqueueOk(c[clientId].controller)}

\* the ids among `ids` whose connection is registered in c and rejects a write
Failing(c, ids) == {clientId \in ids \cap DOMAIN c : ~enqueueOk(c[clientId].controller)}

\* the number of write attempts the last step made on clientId's controller
Attempts(log, clientId) == Cardinality({i \in 1 .. Len(log) : log[i][1] = clientId})

(* C1: with addClient offered only ids that are not registered, in every   *)
(* reachable state an id is in userConnections[u] exactly when the client  *)
(* map holds the id with userId = u.                                       *)
C1_IndexMatchesClients ==
    \A userId \in UserIds, clientId \in ClientIds :
        clientId \in UserClients(userConnections, userId)
            <=> (clientId \in DOMAIN clients /\ clients[clientId].userId = userId)

\* a send to a user evicted one of its two connections and kept the other
C1_Witness ==
    /\ last.op = "sendToUser"
    /\ last.ret = 1
    /\ Len(last.closes) = 1
    /\ Cardinality(UserClients(userConnections, last.user)) = 1

(* C2: in every reachable state the number of registered connections is    *)
(* at most maxConnections.                                                 *)
C2_WithinCapacity == Cardinality(DOMAIN clients) <= MaxConnections

\* an addClient was turned away with the registry full
C2_Witness ==
    /\ last.op = "addClient"
    /\ last.raised
    /\ Cardinality(DOMAIN clients) = MaxConnections

(* C3: addClient called with the connection count >= maxConnections raises *)
(* and changes neither the client map nor the user index, writes no frame  *)
(* and closes no sink; the attempt is not queued: an id enters the client  *)
(* map only in the addClient call that names it and does not raise.        *)
C3_RejectedAddClientChangesNothing ==
    [][/\ (last'.op = "addClient" /\ Cardinality(DOMAIN clients) >= MaxConnections)
          => /\ last'.raised
             /\ clients' = clients
             /\ userConnections' = userConnections
             /\ last'.writes = <<>>
             /\ last'.closes = <<>>
       /\ \A clientId \in DOMAIN clients' \ DOMAIN clients :
             last'.op = "addClient" /\ last'.id = clientId /\ ~last'.raised]_vars

\* a rejected addClient, and the id it offered is not registered
C3_Witness ==
    /\ last.op = "addClient"
    /\ last.raised
    /\ last.id \notin DOMAIN clients
    /\ last.writes = <<>>

(* C4: sendToClient(id, event) on a registered id whose sink rejects the    *)
(* write returns false without raising, and on return the connection is in *)
(* neither the client map nor any user index set, its close attempted.     *)
C4_FailedSendEvicts ==
    [][\A clientId \in DOMAIN clients :
          (/\ last'.op = "sendToClient"
           /\ last'.id = clientId
           /\ ~enqueueOk(clients[clientId].controller))
          => /\ ~last'.ok
             /\ ~last'.raised
             /\ clientId \notin DOMAIN clients'
             /\ ~Indexed(userConnections', clientId)
             /\ last'.closes = <<<<clientId, FALSE>>>>]_vars

\* sendToClient found the sink of a user's connection broken
C4_Witness ==
    /\ last.op = "sendToClient"
    /\ ~last.ok
    /\ last.writes = <<<<last.id, "notification", FALSE>>>>
    /\ last.id \notin DOMAIN clients
    /\ clients # << >>

(* C5: sendToUser(u, e) returns the number of u's connections (as indexed   *)
(* when the call starts) whose sink accepted the write; the connections of *)
(* u whose sink failed are evicted, all others stay, and totalConnections  *)
(* drops by exactly the number of failed sinks.                            *)
C5_SendToUserCountsAccepted ==
    [][\A userId \in UserIds :
          (last'.op = "sendToUser" /\ last'.user = userId)
          => LET mine == UserClients(userConnections, userId)
                 failed == Failing(clients, mine)
             IN /\ last'.ret = Cardinality(Accepting(clients, mine))
                /\ DOMAIN clients' = DOMAIN clients \ failed
                /\ getStats(clients', userConnections').totalConnections
                     = getStats(clients, userConnections).totalConnections
                         - Cardinality(failed)]_vars

\* a user with two connections: one accepted the frame, one was evicted
C5_Witness ==
    /\ last.op = "sendToUser"
    /\ last.ret = 1
    /\ Len(last.writes) = 2
    /\ Len(last.closes) = 1
    /\ Cardinality(DOMAIN clients) = 1

(* C6: sendToUser and broadcast attempt exactly one write on every         *)
(* targeted connection and none elsewhere, whatever fails; exactly the     *)
(* targeted connections whose own write failed are removed, every other    *)
(* record is unchanged, and the call does not raise.                       *)
C6_FailureIsolation ==
    [][(last'.op \in {"sendToUser", "broadcast"})
          => LET targets == IF last'.op = "broadcast"
                            THEN DOMAIN clients
                            ELSE UserClients(userConnections, last'.user)
             IN /\ \A clientId \in ClientIds :
                      Attempts(last'.writes, clientId)
                          = IF clientId \in targets THEN 1 ELSE 0
                /\ \A clientId \in DOMAIN clients :
                      IF clientId \in Failing(clients, targets)
                      THEN clientId \notin DOMAIN clients'
                      ELSE /\ clientId \in DOMAIN clients'
                           /\ clients'[clientId] = clients[clientId]
                /\ ~last'.raised]_vars

\* a broadcast whose first delivery failed and whose second succeeded
C6_Witness ==
    /\ last.op = "broadcast"
    /\ Len(last.writes) = 2
    /\ ~last.writes[1][3]
    /\ last.writes[2][3]
    /\ last.ret = 1

(* C7: after removeClient(id), id is in neither the client map nor any     *)
(* user index set; on an id that is not registered the call changes        *)
(* nothing and closes no sink; removing twice equals removing once.        *)
C7_RemoveClientIdempotent ==
    [][\A clientId \in ClientIds :
          (last'.op = "removeClient" /\ last'.id = clientId)
          => /\ clientId \notin DOMAIN clients'
             /\ ~Indexed(userConnections', clientId)
             /\ clientId \notin DOMAIN clients
                  => /\ clients' = clients
                     /\ userConnections' = userConnections
                     /\ last'.closes = <<>>
             /\ removeClient(removeClient(Current, clientId), clientId)
                  = removeClient(Current, clientId)]_vars

\* removeClient on an id that is not registered, next to live connections
C7_Witness ==
    /\ last.op = "removeClient"
    /\ last.closes = <<>>
    /\ last.id \notin DOMAIN clients
    /\ userConnections # << >>

(* C8: removeClient(id) on a registered connection whose close() fails     *)
(* still removes it from the client map and the user index and returns     *)
(* without raising.                                                        *)
C8_CloseFailureSwallowed ==
    [][\A clientId \in DOMAIN clients :
          (/\ last'.op = "removeClient"
           /\ last'.id = clientId
           /\ ~closeOk(clients[clientId].controller))
          => /\ ~last'.raised
             /\ clientId \notin DOMAIN clients'
             /\ ~Indexed(userConnections', clientId)
             /\ last'.closes = <<<<clientId, FALSE>>>>]_vars

\* removeClient whose close() threw
C8_Witness ==
    /\ last.op = "removeClient"
    /\ last.closes = <<<<last.id, FALSE>>>>
    /\ last.id \notin DOMAIN clients
    /\ ~last.raised

(* C9: in every reachable state no user is mapped to an empty set in the   *)
(* user index.                                                             *)
C9_NoEmptyUserEntry ==
    \A userId \in DOMAIN userConnections : userConnections[userId] # {}

\* a send failure evicted the last connection of a user
C9_Witness ==
    /\ last.op = "sendToUser"
    /\ last.ret = 0
    /\ Len(last.closes) = 1
    /\ last.user \notin DOMAIN userConnections

(* C10 as stated: addClient below the cap returns without raising and on   *)
(* return the id is registered and, with a userId, indexed under it.       *)
C10_AsStated ==
    [][(last'.op = "addClient" /\ Cardinality(DOMAIN clients) < MaxConnections)
          => /\ ~last'.raised
             /\ last'.id \in DOMAIN clients'
             /\ Truthy(last'.user)
                  => last'.id \in UserClients(userConnections', last'.user)]_vars

(* C10 amended: addClient below the cap returns without raising after one  *)
(* write of the connection frame; if the sink accepted it, the id is       *)
(* registered with the given userId and, with a userId, indexed under it;  *)
(* if the sink rejected it, the connection was evicted again and the id is *)
(* in neither the client map nor the user index.                           *)
C10_AddClientRegistersUnlessWriteFails ==
    [][(last'.op = "addClient" /\ Cardinality(DOMAIN clients) < MaxConnections)
          => /\ ~last'.raised
             /\ Len(last'.writes) = 1
             /\ last'.writes[1][1] = last'.id
             /\ last'.writes[1][2] = "connection"
             /\ IF last'.writes[1][3]
                THEN /\ last'.id \in DOMAIN clients'
                     /\ clients'[last'.id].userId = last'.user
                     /\ Truthy(last'.user)
                          => last'.id \in UserClients(userConnections', last'.user)
                ELSE /\ last'.id \notin DOMAIN clients'
                     /\ ~Indexed(userConnections', last'.id)]_vars

\* addClient with a userId whose sink rejected the connection frame
C10_Witness ==
    /\ last.op = "addClient"
    /\ ~last.raised
    /\ Truthy(last.user)
    /\ last.writes = <<<<last.id, "connection", FALSE>>>>
    /\ last.id \notin DOMAIN clients

(***************************************************************************)
(* C11: the first frame written to the sink of a connection addClient      *)
(* accepted is the connection event, written during that addClient call    *)
(* and before any other event.  Step by step: an addClient call that is    *)
(* not rejected makes exactly one write, the connection event on the sink  *)
(* of the id it was given, and the id is registered afterwards exactly     *)
(* when the sink accepted it; an id becomes registered in an addClient     *)
(* step for that id only; every write any other step makes goes to the     *)
(* sink of a connection that was registered before the step, hence after   *)
(* its connection event.                                                   *)
(***************************************************************************)
C11_ConnectionFrameFirst ==
    [][/\ (last'.op = "addClient" /\ ~last'.raised)
            => last'.writes =
                   <<<<last'.id, "connection", last'.id \in DOMAIN clients'>>>>
       /\ \A clientId \in DOMAIN clients' \ DOMAIN clients :
             last'.op = "addClient" /\ last'.id = clientId
       /\ last'.op # "addClient"
            => \A i \in 1 .. Len(last'.writes) :
                  /\ last'.writes[i][1] \in DOMAIN clients
                  /\ last'.writes[i][2] # "connection"]_vars

\* a heartbeat has just been written to a connection that is still
\* registered: its connection event was written when it was added
C11_Witness ==
    /\ last.op = "heartbeat"
    /\ \E i \in 1 .. Len(last.writes) :
          /\ last.writes[i][2] = "heartbeat"
          /\ last.writes[i][3]
          /\ last.writes[i][1] \in DOMAIN clients

(***************************************************************************)
(* C12: broadcast(e) attempts one write of e on the sink of every          *)
(* connection registered when the call starts, with or without a userId,   *)
(* and on no other; it returns the number of those sinks that accepted,    *)
(* which is getStats().totalConnections when every sink accepted.          *)
(***************************************************************************)
C12_BroadcastReachesAll ==
    [][last'.op = "broadcast"
         => /\ ~last'.raised
            /\ Len(last'.writes) = Cardinality(DOMAIN clients)
            /\ \A clientId \in DOMAIN clients :
                  \E i \in 1 .. Len(last'.writes) :
                     last'.writes[i] =
                        <<clientId, "notification",
                          enqueueOk(clients[clientId].controller)>>
            /\ last'.ret = Cardinality(Accepting(clients, DOMAIN clients))
            /\ Failing(clients, DOMAIN clients) = {}
                 => last'.ret =
                       getStats(clients', userConnections').totalConnections]_vars

\* three connections, one of them without a user, all reached by a broadcast
C12_Witness ==
    /\ last.op = "broadcast"
    /\ last.ret = 3
    /\ Len(last.writes) = 3
    /\ \E clientId \in DOMAIN clients : ~Truthy(clients[clientId].userId)

\* the scenario of two users: two connections of U1, one of U2, no other
\* connection, every sink accepting
TwoOfU1OneOfU2(c) ==
    /\ Cardinality(DOMAIN c) = 3
    /\ Cardinality({clientId \in DOMAIN c : c[clientId].userId = "U1"}) = 2
    /\ Cardinality({clientId \in DOMAIN c : c[clientId].userId = "U2"}) = 1
    /\ Failing(c, DOMAIN c) = {}

(***************************************************************************)
(* C13: sendToUser(u, e) writes only to sinks of connections registered    *)
(* under u; a connection of another user or of no user receives no frame,  *)
(* is not closed and keeps its record, and the index entries of the other  *)
(* users stay as they were.  With two connections of U1 and one of U2, all *)
(* sinks accepting, sendToUser(U1, e) returns 2 and broadcast(e) returns 3.*)
(***************************************************************************)
C13_SendToUserOnlyOwnSinks ==
    [][/\ last'.op = "sendToUser"
            => /\ \A i \in 1 .. Len(last'.writes) :
                     /\ last'.writes[i][1] \in DOMAIN clients
                     /\ clients[last'.writes[i][1]].userId = last'.user
               /\ \A clientId \in DOMAIN clients :
                     clients[clientId].userId # last'.user
                       => /\ Attempts(last'.writes, clientId) = 0
                          /\ Attempts(last'.closes, clientId) = 0
                          /\ clientId \in DOMAIN clients'
                          /\ clients'[clientId] = clients[clientId]
               /\ \A userId \in DOMAIN userConnections \ {last'.user} :
                     /\ userId \in DOMAIN userConnections'
                     /\ userConnections'[userId] = userConnections[userId]
       /\ (TwoOfU1OneOfU2(clients) /\ last'.op = "sendToUser" /\ last'.user = "U1")
            => last'.ret = 2
       /\ (TwoOfU1OneOfU2(clients) /\ last'.op = "broadcast")
            => last'.ret = 3]_vars

\* sendToUser(U1, e) has just returned 2 in the scenario of two users
C13_Witness ==
    /\ TwoOfU1OneOfU2(clients)
    /\ last.op = "sendToUser"
    /\ last.user = "U1"
    /\ last.ret = 2
    /\ Len(last.writes) = 2

(***************************************************************************)
(* C14: sendToClient with an id that is not registered returns false and   *)
(* sendToUser with a user that has no registered connection returns 0; in  *)
(* both cases no error is raised, no sink is written or closed, and the    *)
(* connection map and the user index stay as they were.                    *)
(***************************************************************************)
C14_UnknownTargetIsNoOp ==
    [][/\ (last'.op = "sendToClient" /\ last'.id \notin DOMAIN clients)
            => /\ ~last'.ok
               /\ ~last'.raised
               /\ last'.writes = << >> /\ last'.closes = << >>
               /\ clients' = clients /\ userConnections' = userConnections
       /\ (/\ last'.op = "sendToUser"
           /\ \A clientId \in DOMAIN clients :
                 clients[clientId].userId # last'.user)
            => /\ last'.ret = 0
               /\ ~last'.raised
               /\ last'.writes = << >> /\ last'.closes = << >>
               /\ clients' = clients /\ userConnections' = userConnections]_vars

\* sendToClient has just been called with an id that is not registered,
\* while other connections are
C14_Witness ==
    /\ last.op = "sendToClient"
    /\ last.id \notin DOMAIN clients
    /\ last.writes = << >> /\ last.closes = << >>
    /\ ~last.ok
    /\ Cardinality(DOMAIN clients) = 2

\* the connections registered in c whose record carries userId
ConnectionsOf(c, userId) == {clientId \in DOMAIN c : c[clientId].userId = userId}

(***************************************************************************)
(* C15: whatever calls and evictions came before, getStats() returns       *)
(* totalConnections = the number of registered ids, uniqueUsers = the      *)
(* number of distinct users carried by the registered connections, and     *)
(* connectionsByUser = exactly those users, each with the number of its    *)
(* registered connections; the call writes to no sink and changes nothing. *)
(***************************************************************************)
C15_StatsAreExact ==
    [][last'.op = "getStats"
         => LET users == {userId \in UserIds : ConnectionsOf(clients, userId) # {}}
                stats == last'.stats
            IN /\ stats.totalConnections = Cardinality(DOMAIN clients)
               /\ stats.uniqueUsers = Cardinality(users)
               /\ DOMAIN stats.connectionsByUser = users
               /\ \A userId \in users :
                     stats.connectionsByUser[userId] =
                        Cardinality(ConnectionsOf(clients, userId))
               /\ ~last'.raised
               /\ last'.writes = << >> /\ last'.closes = << >>
               /\ clients' = clients /\ userConnections' = userConnections
               /\ heartbeatTimer' = heartbeatTimer
               /\ maxConnections' = maxConnections]_vars

\* getStats has just reported two connections of one user
C15_Witness ==
    /\ last.op = "getStats"
    /\ last.stats.totalConnections = 2
    /\ last.stats.uniqueUsers = 1
    /\ \E userId \in UserIds : last.stats.connectionsByUser = [u \in {userId} |-> 2]

(***************************************************************************)
(* C16: a half-open connection -- registered, its sink accepting every     *)
(* write -- is eventually removed by the reaper when the ticks keep        *)
(* firing: every registered connection is, some time later, either no      *)
(* longer registered or no longer accepting writes.                        *)
(***************************************************************************)
C16_HalfOpenEventuallyRemoved ==
    \A clientId \in ClientIds :
        (clientId \in DOMAIN clients)
           ~> (\/ clientId \notin DOMAIN clients
               \/ ~enqueueOk(clients[clientId].controller))

(***************************************************************************)
(* C17: with the ticks firing every heartbeatInterval, a connection on     *)
(* which no send succeeds is removed no later than connectionTimeout +     *)
(* heartbeatInterval after its last successful delivery.  lastPing is the  *)
(* time of a successful delivery (the registration or a heartbeat), so the *)
(* last one is no older than lastPing: no registered connection has a      *)
(* lastPing older than connectionTimeout + heartbeatInterval.  After a     *)
(* tick every connection still registered has just accepted a heartbeat,   *)
(* and when no write of the tick was accepted no connection is left:       *)
(* totalConnections is 0.                                                  *)
(***************************************************************************)
C17_RemovedByDeadline ==
    /\ \A clientId \in DOMAIN clients :
          now - clients[clientId].lastPing
             <= ConnectionTimeout + HeartbeatInterval
    /\ last.op = "heartbeat"
         => /\ \A clientId \in DOMAIN clients :
                  /\ enqueueOk(clients[clientId].controller)
                  /\ clients[clientId].lastPing = now
                  /\ \E i \in 1 .. Len(last.writes) :
                        last.writes[i] = <<clientId, "heartbeat", TRUE>>
            /\ (\A i \in 1 .. Len(last.writes) : ~last.writes[i][3])
                 => getStats(clients, userConnections).totalConnections = 0

\* a tick at or after connectionTimeout has just failed to write to the one
\* registered connection: it is gone
C17_Witness ==
    /\ last.op = "heartbeat"
    /\ now >= ConnectionTimeout
    /\ Len(last.writes) = 1
    /\ ~last.writes[1][3]
    /\ last.closes = <<<<last.writes[1][1], FALSE>>>>
    /\ clients = << >>

(***************************************************************************)
(* C18: when destroy() returns, the connection map and the user index are  *)
(* empty and close has been called once on the sink of every connection    *)
(* that was registered when destroy was called, whether or not the closes  *)
(* succeed; no error leaves destroy.                                       *)
(***************************************************************************)
C18_DestroyRemovesAll ==
    [][last'.op = "destroy"
         => /\ ~last'.raised
            /\ clients' = << >>
            /\ userConnections' = << >>
            /\ Len(last'.closes) = Cardinality(DOMAIN clients)
            /\ \A clientId \in DOMAIN clients :
                  \E i \in 1 .. Len(last'.closes) :
                     last'.closes[i] =
                        <<clientId, closeOk(clients[clientId].controller)>>]_vars

\* destroy has just closed two sinks, one of which refused
C18_Witness ==
    /\ last.op = "destroy"
    /\ Len(last.closes) = 2
    /\ \E i, j \in 1 .. 2 : last.closes[i][2] /\ ~last.closes[j][2]
    /\ clients = << >>
    /\ userConnections = << >>

(***************************************************************************)
(* C19: destroy() is idempotent and final.  A destroy call raises nothing  *)
(* and leaves the timer cleared; a destroy call that directly follows a    *)
(* destroy call closes nothing and changes neither map nor the timer; once *)
(* the timer is cleared it stays cleared, no tick runs and no step writes  *)
(* a heartbeat frame to any sink, those of connections added after destroy *)
(* included.                                                               *)
(***************************************************************************)
C19_DestroyIdempotentAndFinal ==
    [][/\ last'.op = "destroy"
            => ~last'.raised /\ ~heartbeatTimer'
       /\ (last.op = "destroy" /\ last'.op = "destroy")
            => /\ last'.closes = << >>
               /\ clients' = clients
               /\ userConnections' = userConnections
               /\ heartbeatTimer' = heartbeatTimer
       /\ ~heartbeatTimer
            => /\ ~heartbeatTimer'
               /\ last'.op # "heartbeat"
               /\ \A i \in 1 .. Len(last'.writes) :
                     last'.writes[i][2] # "heartbeat"]_vars

\* after destroy a connection has been added and the time of the next tick
\* has come and gone
C19_Witness ==
    /\ ~heartbeatTimer
    /\ DOMAIN clients # {}
    /\ now > nextTick
    /\ last.op = "advance"

(***************************************************************************)
(* C20 as stated: lastPing of a registered connection is the time of the   *)
(* most recent successful write to its sink, whichever operation made it:  *)
(* a step that makes an accepted write to a connection leaves its lastPing *)
(* at the time of the step, and a step that makes none leaves its lastPing *)
(* as it was.                                                              *)
(***************************************************************************)
C20_AsStated ==
    [][\A clientId \in DOMAIN clients' :
          IF \E i \in 1 .. Len(last'.writes) :
                last'.writes[i][1] = clientId /\ last'.writes[i][3]
          THEN clients'[clientId].lastPing = now'
          ELSE /\ clientId \in DOMAIN clients
               /\ clients'[clientId].lastPing = clients[clientId].lastPing]_vars

(***************************************************************************)
(* C20, amended: lastPing of a registered connection is the time of its    *)
(* registration or, if later, of the last tick whose heartbeat its sink    *)
(* accepted.  A connection enters the map with lastPing = the time of the  *)
(* call; a tick leaves every connection it keeps at lastPing = the tick    *)
(* time; no other step changes lastPing, successful sendToClient,          *)
(* sendToUser and broadcast included.  At a tick a connection is stale --  *)
(* closed without a heartbeat being tried -- exactly when the tick time    *)
(* minus its lastPing exceeds connectionTimeout.                           *)
(***************************************************************************)
C20_LastPingIsRegistrationOrHeartbeat ==
    [][/\ \A clientId \in DOMAIN clients' \ DOMAIN clients :
             clients'[clientId].lastPing = now'
       /\ \A clientId \in DOMAIN clients \cap DOMAIN clients' :
             clients'[clientId].lastPing =
                IF last'.op = "heartbeat" THEN now' ELSE clients[clientId].lastPing
       /\ last'.op = "heartbeat"
            => \A clientId \in DOMAIN clients :
                  (now - clients[clientId].lastPing > ConnectionTimeout)
                     <=> (/\ Attempts(last'.writes, clientId) = 0
                          /\ Attempts(last'.closes, clientId) = 1
                          /\ clientId \notin DOMAIN clients')]_vars

\* sendToClient has just delivered to a connection whose lastPing is older
\* than the delivery
C20_Witness ==
    /\ last.op = "sendToClient"
    /\ last.ok
    /\ last.writes = <<<<last.id, "notification", TRUE>>>>
    /\ last.id \in DOMAIN clients
    /\ clients[last.id].lastPing < now

\* the positions of the newlines of a text
Newlines(text) == {i \in 1 .. Len(text) : text[i] = NL}

\* the lines of a text, each ended by a newline: line k lies between the
\* newline before it and the k-th newline
LinesOf(text) ==
    LET nl == Newlines(text)
        at(k) == CHOOSE i \in nl : Cardinality({j \in nl : j < i}) = k - 1
    IN [k \in 1 .. Cardinality(nl) |->
          SubSeq(text, (IF k = 1 THEN 1 ELSE at(k - 1) + 1), at(k) - 1)]

\* a line that carries the field `data`
IsDataLine(line) == line # << >> /\ line[1] = "data: "

\* the lines, joined by newlines
RECURSIVE Join(_)
Join(lines) ==
    IF Len(lines) = 0 THEN << >>
    ELSE IF Len(lines) = 1 THEN lines[1]
    ELSE lines[1] \o <<NL>> \o Join(Tail(lines))

(***************************************************************************)
(* C21: the frame of an event is, in this order, an id line if and only if *)
(* the event has an id, an event line if and only if it has a type, a      *)
(* retry line if and only if it has a retry value (whatever the value, 0   *)
(* included), then the data lines, then exactly one blank line.  An empty  *)
(* string counts as no id and no type.                                     *)
(***************************************************************************)
C21_FrameLayout ==
    last.op = "formatSSEMessage"
      => LET event == last.event
             lines == LinesOf(last.message)
             fields ==
                 (IF "id" \in DOMAIN event /\ event.id # << >>
                  THEN <<<<"id: ">> \o event.id>> ELSE << >>)
                 \o (IF event.type # << >>
                     THEN <<<<"event: ">> \o event.type>> ELSE << >>)
                 \o (IF "retry" \in DOMAIN event
                     THEN <<<<"retry: ", ToString(event.retry)>>>> ELSE << >>)
             n == Len(fields)
         IN /\ last.message # << >>
            /\ last.message[Len(last.message)] = NL
            /\ Len(lines) >= n + 2
            /\ SubSeq(lines, 1, n) = fields
            /\ \A k \in n + 1 .. Len(lines) - 1 : IsDataLine(lines[k])
            /\ lines[Len(lines)] = << >>

(***************************************************************************)
(* C22: the payload text of an event is its data when the data is a string *)
(* and the JSON text of the data otherwise (a text without newline); the   *)
(* frame holds one data line per line of the payload text, consecutive and *)
(* in order, and the contents of the data lines joined by newlines are the *)
(* payload text.                                                           *)
(***************************************************************************)
C22_DataLinesCarryPayload ==
    last.op = "formatSSEMessage"
      => LET event == last.event
             lines == LinesOf(last.message)
             payload == IF event.data.t = "string"
                        THEN event.data.v
                        ELSE stringify(event.data)
             n == Cardinality(Newlines(payload)) + 1
             dataLines == {k \in 1 .. Len(lines) : IsDataLine(lines[k])}
         IN /\ event.data.t # "string" => n = 1
            /\ Cardinality(dataLines) = n
            /\ \E first \in dataLines :
                  /\ dataLines = first .. first + n - 1
                  /\ Join([k \in 1 .. n |-> Tail(lines[first + k - 1])])
                        = payload

\* the frame of the string payload a, newline, a: two data lines
C22_Witness ==
    /\ last.op = "formatSSEMessage"
    /\ last.event.data = [t |-> "string", v |-> <<"a", NL, "a">>]
    /\ "id" \in DOMAIN last.event
    /\ last.message =
          <<"id: ", "x1", NL, "event: ", "notification", NL,
            "data: ", "a", NL, "data: ", "a", NL, NL>>


\* the helpers aimed at one user, and those aimed at everyone
UserHelpers ==
    {"sendUserNotification", "sendUserSystemEvent", "sendUserCustomEvent",
     "notifications"}
BroadcastHelpers ==
    {"broadcastNotification", "broadcastSystemEvent", "broadcastCustomEvent",
     "broadcasts"}

\* the step changed the registry, returned and raised as the registry call r
SameAs(r) ==
    /\ clients' = r.m.clients
    /\ userConnections' = r.m.userConnections
    /\ last'.ret = r.ret
    /\ last'.raised = r.m.raised
    /\ last'.writes = r.m.writes
    /\ last'.closes = r.m.closes

\* C23: every notification helper, the notifications.* and broadcasts.* sugar
\* included, has exactly the effect of one registry call on the event it
\* built: a user-targeted helper changes the two maps, writes to and closes
\* the controllers, returns the count and raises as sendToUser(userId, event)
\* does, a broadcast helper as broadcast(event) does, and the helper touches
\* nothing else (the cap, the timer, the clock and the hook stay as they were)
C23_HelpersAreOneRegistryCall ==
    [][/\ last'.op \in UserHelpers
            => SameAs(sendToUser(Current, last'.user, Wire(last'.event)))
       /\ last'.op \in BroadcastHelpers
            => SameAs(broadcast(Current, Wire(last'.event)))
       /\ last'.op \in UserHelpers \cup BroadcastHelpers
            => UNCHANGED <<maxConnections, hook, streams, heartbeatTimer, nextTick, now>>
      ]_vars

\* sendUserNotification reached one connection of the user and evicted
\* another whose controller refused the write
C23_Witness ==
    /\ last.op = "sendUserNotification"
    /\ last.ret = 1
    /\ Len(last.writes) = 2
    /\ Len(last.closes) = 1

\* C24: the data of the event each of the six helpers hands to the registry
\* carries a timestamp, which is the caller's timestamp whenever the payload
\* has one, whatever its value, and the time of the call otherwise
C24_PayloadCarriesTimestamp ==
    last.op \in (UserHelpers \cup BroadcastHelpers) \ {"notifications", "broadcasts"}
        => /\ "timestamp" \in DOMAIN last.event.data
           /\ last.event.data.timestamp =
                  IF "timestamp" \in DOMAIN last.payload
                  THEN last.payload.timestamp
                  ELSE now


\* C25: when addClient raises the capacity error for a streaming request,
\* the route answers the request with a rejection, not with a successful
\* event-stream response, and the connection is not registered
C25_CapacityErrorIsRejected ==
    (last.op = "GET" /\ last.addClientRaised)
        => /\ ~(last.response.status = 200
                /\ last.response.contentType = "text/event-stream")
           /\ last.id \notin DOMAIN clients


\* C26: after a connection error, with reconnect enabled and attempts left,
\* the hook schedules a reconnection attempt, and the delay it waits doubles
\* with each attempt: reconnectInterval before the first, twice that before
\* the second, and so on
C26_ReconnectsWithBackoff ==
    [][(/\ last'.op = "error"
        /\ Reconnect
        /\ hook.shouldReconnect
        /\ hook.reconnectAttempts < MaxReconnectAttempts)
           => hook'.reconnectTimeout =
                  {ReconnectInterval * 2 ^ hook.reconnectAttempts}]_vars

\* C27: the hook starts at most maxReconnectAttempts automatic reconnection
\* attempts in a row: the attempts made since the connection last opened are
\* the ones the attempt counter has counted, and neither exceeds
\* maxReconnectAttempts
C27_AtMostMaxAttempts ==
    /\ hook.retries <= MaxReconnectAttempts
    /\ hook.reconnectAttempts <= MaxReconnectAttempts
    /\ hook.retries = hook.reconnectAttempts


\* the connections of c that a tick at time t finds stale
Stale(c, t) == {clientId \in DOMAIN c : t - c[clientId].lastPing > ConnectionTimeout}

(***************************************************************************)
(* C28: at a reaper tick every connection with tick time - lastPing >      *)
(* connectionTimeout is removed through removeClient before any heartbeat  *)
(* is sent: its controller is closed once, and before the controller of    *)
(* any connection the heartbeats evict; no frame is written to it in that  *)
(* tick; after the tick it is in neither the connection map nor the user   *)
(* index.                                                                  *)
(***************************************************************************)
C28_StaleRemovedBeforeHeartbeats ==
    [][last'.op = "heartbeat"
          => LET stale == Stale(clients, now)
             IN /\ \A clientId \in stale :
                      /\ Attempts(last'.writes, clientId) = 0
                      /\ Attempts(last'.closes, clientId) = 1
                      /\ clientId \notin DOMAIN clients'
                      /\ ~Indexed(userConnections', clientId)
                /\ \A i, j \in 1 .. Len(last'.closes) :
                      (last'.closes[i][1] \in stale
                          /\ last'.closes[j][1] \notin stale) => i < j]_vars

\* a tick has just closed a connection without writing to it, and sent a
\* heartbeat to another one
C28_Witness ==
    /\ last.op = "heartbeat"
    /\ \E clientId \in ClientIds :
          /\ Attempts(last.closes, clientId) = 1
          /\ Attempts(last.writes, clientId) = 0
    /\ Len(last.writes) = 1
    /\ last.writes[1][3]

(***************************************************************************)
(* C29: at a reaper tick one heartbeat event, and nothing else, is written *)
(* to every connection that is not stale at the tick; a connection whose   *)
(* controller accepts it is registered after the tick with lastPing = the  *)
(* tick time; a connection whose controller refuses it is removed in the   *)
(* same tick, from the connection map and from the user index.             *)
(***************************************************************************)
C29_HeartbeatToEveryRemaining ==
    [][last'.op = "heartbeat"
          => /\ \A clientId \in DOMAIN clients \ Stale(clients, now) :
                   /\ Attempts(last'.writes, clientId) = 1
                   /\ \E i \in 1 .. Len(last'.writes) :
                         last'.writes[i] =
                            <<clientId, "heartbeat",
                              enqueueOk(clients[clientId].controller)>>
                   /\ IF enqueueOk(clients[clientId].controller)
                      THEN /\ clientId \in DOMAIN clients'
                           /\ clients'[clientId].lastPing = now
                      ELSE /\ clientId \notin DOMAIN clients'
                           /\ ~Indexed(userConnections', clientId)
                           /\ Attempts(last'.closes, clientId) = 1
             /\ \A i \in 1 .. Len(last'.writes) :
                   last'.writes[i][2] = "heartbeat"]_vars

\* a tick after time 0 has just written to two connections: one accepted
\* the heartbeat and is kept with lastPing = now, the other refused and is gone
C29_Witness ==
    /\ last.op = "heartbeat"
    /\ now > 0
    /\ Len(last.writes) = 2
    /\ \E i, j \in 1 .. 2 :
          /\ last.writes[i][3]
          /\ ~last.writes[j][3]
          /\ last.writes[i][1] \in DOMAIN clients
          /\ clients[last.writes[i][1]].lastPing = now
          /\ last.writes[j][1] \notin DOMAIN clients

(***************************************************************************)
(* C30: for as long as a connection stays registered, no step of the       *)
(* registry changes its record, except that a reaper tick sets its         *)
(* lastPing: sendToClient, sendToUser, broadcast, getStats, and addClient, *)
(* removeClient and evictions of other connections leave its userId,       *)
(* sessionId, controller and lastPing as they were.  (The state of the     *)
(* stream behind the controller is the peer's, not the registry's.)        *)
(***************************************************************************)
C30_RecordChangedOnlyByReaper ==
    [][\A clientId \in DOMAIN clients \cap DOMAIN clients' :
          /\ clients'[clientId].userId = clients[clientId].userId
          /\ clients'[clientId].sessionId = clients[clientId].sessionId
          /\ last'.op # "sinkBreak"
               => clients'[clientId].controller = clients[clientId].controller
          /\ last'.op # "heartbeat"
               => clients'[clientId].lastPing = clients[clientId].lastPing
          /\ last'.op = "heartbeat"
               => clients'[clientId].lastPing = now]_vars

\* a broadcast has just reached two connections, one of them registered at
\* an earlier time than the other
C30_Witness ==
    /\ last.op = "broadcast"
    /\ last.ret = 2
    /\ \E c1, c2 \in DOMAIN clients :
          /\ clients[c1].lastPing < clients[c2].lastPing
          /\ clients[c2].lastPing < now
          /\ clients[c1].userId # clients[c2].userId


\* the connections whose controller refused a write in the log
Refused(log) == {log[i][1] : i \in {j \in 1 .. Len(log) : ~log[j][3]}}

(***************************************************************************)
(* C31: every registry operation ends after a bounded number of controller *)
(* calls -- at most one write and one close per connection it started      *)
(* with, the new connection of addClient included -- and eviction is not   *)
(* re-entrant: a connection whose write was refused is written to exactly  *)
(* once in the operation, is closed exactly once, and is gone from both    *)
(* maps afterwards, also when that close throws; no error leaves the       *)
(* operation.                                                              *)
(***************************************************************************)
C31_EvictionNotReentrant ==
    [][last'.op \in {"addClient", "removeClient", "sendToClient", "sendToUser",
                     "broadcast", "heartbeat", "destroy", "getStats"}
          => /\ \A clientId \in ClientIds :
                   /\ Attempts(last'.writes, clientId) <= 1
                   /\ Attempts(last'.closes, clientId) <= 1
                   /\ Attempts(last'.writes, clientId) = 1
                        => clientId \in DOMAIN clients \cup {last'.id}
                   /\ Attempts(last'.closes, clientId) = 1
                        => clientId \in DOMAIN clients \cup {last'.id}
             /\ \A clientId \in Refused(last'.writes) :
                   /\ Attempts(last'.writes, clientId) = 1
                   /\ Attempts(last'.closes, clientId) = 1
                   /\ clientId \notin DOMAIN clients'
                   /\ ~Indexed(userConnections', clientId)
             /\ last'.raised => (last'.op = "addClient" /\ atCapacity(clients))
      ]_vars

\* a heartbeat tick has just met a controller that refused the write and
\* threw on close, and went on to the next connection
C31_Witness ==
    /\ last.op = "heartbeat"
    /\ Len(last.writes) = 2
    /\ ~last.writes[1][3]
    /\ last.writes[2][3]
    /\ last.closes = <<<<last.writes[1][1], FALSE>>>>
    /\ ~last.raised


\* the three sending methods
Sends == {"sendToClient", "sendToUser", "broadcast"}

(***************************************************************************)
(* C32: the registry stores no event.  A send whose writes are all         *)
(* accepted leaves the connection map and the user index exactly as they   *)
(* were; the frames of a send go, once each, to connections registered at  *)
(* the time of the send and carry the event of that send; and a connection *)
(* that registers receives its connection frame and nothing that was sent  *)
(* before it registered.  No other operation but the reaper tick writes.   *)
(***************************************************************************)
C32_NoEventStored ==
    [][/\ (last'.op \in Sends /\ Refused(last'.writes) = {})
            => /\ clients' = clients
               /\ userConnections' = userConnections
       /\ last'.op \in Sends
            => \A i \in 1 .. Len(last'.writes) :
                  /\ last'.writes[i][1] \in DOMAIN clients
                  /\ last'.writes[i][2] = "notification"
                  /\ Attempts(last'.writes, last'.writes[i][1]) = 1
       /\ last'.op = "addClient"
            => \A i \in 1 .. Len(last'.writes) :
                  /\ i = 1
                  /\ last'.writes[i][1] = last'.id
                  /\ last'.writes[i][2] = "connection"
       /\ last'.op \notin Sends \cup {"addClient", "heartbeat"}
            => last'.writes = << >>]_vars

\* a broadcast has just been accepted by the two registered connections
\* while a third id was not registered
C32_Witness ==
    /\ last.op = "broadcast"
    /\ last.ret = 2
    /\ Refused(last.writes) = {}
    /\ Cardinality(DOMAIN clients) = 2
    /\ ClientIds \ DOMAIN clients # {}


(***************************************************************************)
(* C33: the route calls addClient once per streaming request, at stream    *)
(* start, with an id it has not used before, and removeClient with that id *)
(* when the stream is cancelled.  A request that is accepted writes the    *)
(* one connection frame and leaves the id registered for the session's     *)
(* user.  After a cancel the id is in neither map and every other          *)
(* connection is as it was; a cancel for a connection the registry has     *)
(* already dropped (refused write, reap, destroy) closes nothing and       *)
(* changes neither map.                                                    *)
(***************************************************************************)
C33_StartAddsCancelRemoves ==
    [][/\ (last'.op = "GET" /\ last'.response.status = 200)
            => /\ last'.id \notin DOMAIN streams
               /\ last'.id \notin DOMAIN clients
               /\ IF last'.addClientRaised
                  THEN /\ clients' = clients
                       /\ userConnections' = userConnections
                       /\ last'.writes = << >>
                  ELSE /\ last'.writes = <<<<last'.id, "connection", TRUE>>>>
                       /\ last'.id \in DOMAIN clients'
                       /\ clients'[last'.id].userId = last'.user
                       /\ Remove(clients', last'.id) = clients
       /\ last'.op = "cancel"
            => /\ last'.id \in DOMAIN streams
               /\ last'.id \notin DOMAIN clients'
               /\ ~Indexed(userConnections', last'.id)
               /\ clients' = Remove(clients, last'.id)
               /\ last'.writes = << >>
               /\ ~last'.raised
               /\ IF last'.id \in DOMAIN clients
                  THEN Attempts(last'.closes, last'.id) = 1
                       /\ Len(last'.closes) = 1
                  ELSE /\ last'.closes = << >>
                       /\ userConnections' = userConnections]_vars

\* the stream of a connection the registry had already dropped has just
\* been cancelled, while another connection is registered
C33_Witness ==
    /\ last.op = "cancel"
    /\ last.closes = << >>
    /\ streams[last.id] = "cancelled"
    /\ clients # << >>


C35_EvictsOnlyOnRefusedWrite ==
    [][/\ (/\ last'.op = "sendToClient"
           /\ last'.id \in DOMAIN clients
           /\ enqueueOk(clients[last'.id].controller))
            => /\ last'.ok
               /\ last'.id \in DOMAIN clients'
       /\ last'.op \in Sends
            => \A clientId \in DOMAIN clients \ DOMAIN clients' :
                  clientId \in Refused(last'.writes)]_vars


(***************************************************************************)
(* C36: when addClient is called below the cap with an id that is already  *)
(* registered and a controller that accepts the connection frame, nothing  *)
(* of the replaced connection remains: afterwards the id is in the index   *)
(* set of the user of the record now in the connection map and in no other *)
(* set, and the controller of the replaced connection has been closed.     *)
(***************************************************************************)
C36_ReplacedLeavesNoTrace ==
    [][(/\ last'.op = "addClient"
        /\ last'.id \in DOMAIN clients
        /\ ~last'.raised
        /\ last'.writes = <<<<last'.id, "connection", TRUE>>>>)
           => /\ last'.id \in DOMAIN clients'
              /\ \A userId \in UserIds :
                    last'.id \in UserClients(userConnections', userId)
                       <=> clients'[last'.id].userId = userId
              /\ Attempts(last'.closes, last'.id) = 1]_vars


(***************************************************************************)
(* C37: whatever the order of requests, sends, reaper ticks, cancels and   *)
(* destroy, the registry never writes to a controller after closing it and *)
(* closes each controller at most once.  Step by step: a controller is     *)
(* closed at most once in a step, only while its connection is registered, *)
(* and the connection is forgotten in that step; frames are written only   *)
(* to registered connections; in the step that closes a controller the     *)
(* only write to it, if any, is the refused one that led to the close; and *)
(* a connection the registry has forgotten never becomes registered again, *)
(* so that no later step can write to or close its controller.             *)
(***************************************************************************)
C37_NoWriteAfterClose ==
    [][\A clientId \in ClientIds :
          LET registered == \/ clientId \in DOMAIN clients
                            \/ last'.op = "GET" /\ clientId = last'.id
          IN /\ Attempts(last'.closes, clientId) <= 1
             /\ Attempts(last'.closes, clientId) = 1
                  => registered /\ clientId \notin DOMAIN clients'
             /\ Attempts(last'.writes, clientId) >= 1 => registered
             /\ (/\ Attempts(last'.writes, clientId) >= 1
                 /\ Attempts(last'.closes, clientId) = 1)
                  => /\ Attempts(last'.writes, clientId) = 1
                     /\ clientId \in Refused(last'.writes)
             /\ (clientId \in DOMAIN streams /\ clientId \notin DOMAIN clients)
                  => clientId \notin DOMAIN clients']_vars

\* a broadcast has just reached a connection while the stream of another,
\* which the registry closed earlier, has not been cancelled yet
C37_Witness ==
    /\ last.op = "broadcast"
    /\ last.ret >= 1
    /\ last.closes = << >>
    /\ \E clientId \in DOMAIN streams \ DOMAIN clients :
          streams[clientId] = "started"


\* the two maps after addClient(clientId, controller, userId) at time t
\* followed by removeClient(clientId), from the maps c and u
AddThenRemove(c, u, clientId, userId, t) ==
    LET m == removeClient(addClient(Machine(c, u), clientId, "open", userId, t),
                          clientId)
    IN <<m.clients, m.userConnections>>

(***************************************************************************)
(* C38: for an id that is not registered and a controller that accepts     *)
(* writes, addClient(id, controller, userId) followed by removeClient(id)  *)
(* gives back the connection map and the user index exactly as they were   *)
(* before, for a user that already has connections, a user that has none   *)
(* and an absent user.                                                     *)
(***************************************************************************)
C38_AddThenRemoveRestores ==
    \A clientId \in ClientIds \ DOMAIN clients, userId \in UserIds \cup {NoUser} :
        AddThenRemove(clients, userConnections, clientId, userId, now)
            = <<clients, userConnections>>

\* below the cap, with a user that has a connection, a user that has none
\* and an id to spare, a connection whose controller accepted the close has
\* just been removed
C38_Witness ==
    /\ last.op = "removeClient"
    /\ last.closes = <<<<last.id, TRUE>>>>
    /\ last.id \notin DOMAIN clients
    /\ ~atCapacity(clients)
    /\ \E userId \in DOMAIN userConnections : userConnections[userId] # {}
    /\ UserIds \ DOMAIN userConnections # {}


\* the hook holds no EventSource and no armed reconnect timeout, and shows
\* itself neither connected nor connecting
Idle(h) ==
    /\ h.eventSource = "null"
    /\ h.reconnectTimeout = {}
    /\ ~h.isConnected
    /\ ~h.isConnecting

(***************************************************************************)
(* C39: after disconnect() the hook holds no EventSource and no pending    *)
(* reconnect timer, isConnected and isConnecting are false, and it stays   *)
(* so, with no connection attempt started by the EventSource or by a timer *)
(* callback, through every step until connect() is called.                 *)
(***************************************************************************)
C39_DisconnectedUntilConnect ==
    [][/\ last'.op = "disconnect" => Idle(hook') /\ ~hook'.shouldReconnect
       /\ ~hook.shouldReconnect /\ last'.op # "connect"
              => Idle(hook') /\ ~hook'.shouldReconnect /\ hook'.retries = 0]_vars

\* disconnect() has just been called on a hook that had received a message
\* and whose EventSource had then met an error
C39_Witness ==
    /\ last.op = "disconnect"
    /\ hook.error
    /\ Len(hook.messages) > 0
    /\ ~hook.shouldReconnect

====
